---- MODULE Spec2Model ----
(***************************************************************************)
(* Delivery subsystem of aicostmanager: the in-memory queue                *)
(* (delivery/mem_queue.py), the SQLite backed queue                        *)
(* (delivery/persistent.py), the shared queue base (delivery/base.py) and  *)
(* the legacy ResilientDelivery (delivery.py), together with the           *)
(* triggered-limits check that gates enqueue.                              *)
(*                                                                         *)
(* A record is identified by its enqueue sequence number 1, 2, ...; the    *)
(* worker thread of a delivery is a process whose position is pc.          *)
(***************************************************************************)
EXTENDS Integers, Sequences, FiniteSets, TLC

\* ------------------------------------------------------------------ bounds
\* number of enqueue/track/deliver calls explored
MaxRecords == 3
\* number of stop() calls explored
MaxStops == 2
\* last instant of the wall clock (seconds)
MaxTime == 2
\* number of process kills explored
MaxCrashes == 1
\* configuration values (the defaults of the source are larger)
queue_size == 1
max_batch_size == 2
max_retries == 2
max_attempts == 2
\* LIMIT of _get_batch (100 in the source)
batch_limit == 2
\* batch_interval rounded up to whole seconds (0.5 in the source)
batch_interval == 1
MaxLen == 3
MaxCalls == 2
\* max_retries of the run that explores the backoff (5 by default)
MaxRetryCount == 10
\* last instant of the clock of that run
MaxWait == 301

None == "None"

\* first_ts is None
NoTime == -1
NoFirstTs == [at |-> NoTime, elapsed |-> FALSE]

Ids == 1..MaxRecords

\* Outcomes of one HTTP request: 2xx, 4xx, 5xx or a network error / timeout.
Outcomes == {"2xx", "4xx", "5xx", "net"}

VARIABLES
    strategy,      \* which delivery class was created
    queue,         \* queue.Queue of the in-memory strategies (FIFO of record ids)
    rows,          \* the SQLite table `queue`: id -> row
    nextId,        \* number of records handed to enqueue so far, plus one
    batch,         \* the worker's local batch / rows / buffer
    pc,            \* position of the worker thread
    site,          \* call site the worker returns to after _send_batch
    attempt,       \* attempts made by the running Retrying loop
    stopFlag,      \* threading.Event _stop / _stop_event
    stopPc,        \* position of the thread calling stop()
    stops,         \* number of stop() calls that have returned in this process
    closed,        \* resources closed by stop(): client / connection
    total_sent,
    total_failed,
    postCount,     \* id -> number of POSTs whose body contained the record
    acked,         \* ids whose batch was answered 2xx to this process
    failedIds,     \* ids counted in total_failed
    now,           \* time.time(), in whole seconds
    ini_payload,   \* [triggered_limits].payload of the INI file
    lastResp,      \* triggered_limits envelope of the latest 2xx POST response
    trackResult,   \* outcome of the latest track()/enqueue() call
    tracked,       \* scoping fields of the record of the latest track() call
    crashes,       \* number of process kills so far
    cost_events,   \* results[0].cost_events of the latest 2xx response: "none", "empty", "some"
    shipsAfterStop, \* _send_batch calls begun by the worker since the stop flag was set
    atStop,        \* records queued or collected when the latest stop() was called
    retrying,      \* outcome of the failed attempt the Retrying loop is about to repeat
    file,          \* the INI file on disk: its sections, and whether it is half written
    config,        \* self._config, the parsed copy a long-lived IniManager keeps
    raw,           \* the writer that uses open(path, "w"): its position and its parser
    result,        \* what the latest read or query of the INI file returned
    lastOp,        \* the latest operation on the INI file
    committed,     \* the values most recently handed to set_option / written as limits
    stream,        \* the events of the stream handed to track_llm_stream_usage
    yielded,       \* the events the generator has yielded so far
    usage_sent,    \* local flag of the generator
    tracks,        \* track calls made by the generator
    global_delivery, \* module variable _global_delivery: 0 (None) or an instance
    created,       \* delivery instances constructed so far
    caller,        \* thread -> its position in get_global_delivery, the instances
                   \* its calls have returned, and the number of its calls
    workers,       \* process -> the worker of its PersistentDelivery on a shared
                   \* database: its position, the rows it fetched, its attempts
    callers,       \* thread -> its position in enqueue() of the in-memory delivery
                   \* and the value of _total_failed it has loaded
    first_ts       \* local first_ts of the buffering worker: the second in which the
                   \* first row of its buffer was picked (NoTime for None), and
                   \* whether batch_interval, a fraction of a second, has passed since

\* the INI file and its users
fileVars == << file, config, raw, result, lastOp, committed >>
\* the stream wrapper
streamVars == << stream, yielded, usage_sent, tracks >>
\* the module-level delivery
globalVars == << global_delivery, created, caller >>

\* the workers of several processes on one database file
sharedVars == << workers >>

\* the threads that call enqueue() at the same time
raceVars == << callers >>

\* what every delivery strategy leaves alone
idleVars == << fileVars, streamVars, globalVars, sharedVars, raceVars >>

\* what the delivery strategies without a buffer leave alone
extVars == << idleVars, first_ts >>

vars == << strategy, queue, rows, nextId, batch, pc, site, attempt, stopFlag,
           stopPc, stops, closed, total_sent, total_failed, postCount, acked, failedIds, now, ini_payload, lastResp, trackResult, tracked,
           crashes, cost_events, shipsAfterStop, atStop, retrying,
           file, config, raw, result, lastOp, committed,
           stream, yielded, usage_sent, tracks, global_delivery, created, caller,
           workers, callers, first_ts >>

\* bookkeeping of responses and of the shutdown
ghostVars == << cost_events, shipsAfterStop, atStop, retrying >>

\* the variables of the persistent table and clock, untouched by the
\* in-memory strategies
dbVars == << rows, now, crashes >>
\* the variables of the limits cache
iniVars == << ini_payload, lastResp, tracked >>

NoRow == [status |-> "absent", retry_count |-> 0, scheduled_at |-> 0]

\* retry predicate of tenacity: without retry= every exception is retried
RetryAll(outcome) == outcome # "2xx"

\* what the Retrying loop is about to repeat once the worker is at position p
RetryPending(outcome, p) == IF p \in {"post", "send"} THEN outcome ELSE "none"

\* threads that call get_global_delivery
Threads == {"t1", "t2", "t3"}

\* a file that does not exist yet, or holds no section
EmptyFile == [tracker |-> None, limits |-> None, torn |-> FALSE]

\* nothing returned yet: `value` is a returned string, `limits` a returned
\* list of limit events
NoResult == [value |-> None, limits |-> {}]

\* no use of the INI file
FileIdle ==
    /\ file = EmptyFile
    /\ config = EmptyFile
    /\ raw = [pc |-> "idle", cp |-> EmptyFile]
    /\ result = NoResult
    /\ lastOp = "none"
    /\ committed = [tracker |-> None, limits |-> None]

\* no stream is wrapped
StreamIdle ==
    /\ stream = << >>
    /\ yielded = << >>
    /\ usage_sent = FALSE
    /\ tracks = 0

\* nobody asks for the module-level delivery
GlobalIdle ==
    /\ global_delivery = 0
    /\ created = 0
    /\ caller = [t \in Threads |-> [pc |-> "idle", got |-> {}, calls |-> 0]]

\* processes that open the same queue database
Procs == {"p1", "p2"}

\* every process is about to poll the table
SharedIdle == workers = [p \in Procs |-> [pc |-> "pick", rows |-> << >>, attempt |-> 0]]

\* no thread is inside enqueue()
RaceIdle == callers = [t \in Threads |-> [pc |-> "idle", tmp |-> 0]]

\* ------------------------------------------------------------ common Init
InitCommon ==
    /\ first_ts = NoFirstTs
    /\ queue = << >>
    /\ rows = [i \in Ids |-> NoRow]
    /\ nextId = 1
    /\ batch = << >>
    /\ site = "loop"
    /\ attempt = 0
    /\ stopFlag = FALSE
    /\ stopPc = "idle"
    /\ stops = 0
    /\ closed = FALSE
    /\ total_sent = 0
    /\ total_failed = 0
    /\ postCount = [i \in Ids |-> 0]
    /\ acked = {}
    /\ failedIds = {}
    /\ now = 0
    /\ ini_payload = None
    /\ lastResp = None
    /\ trackResult = "none"
    /\ tracked = None
    /\ crashes = 0
    /\ cost_events = "none"
    /\ shipsAfterStop = 0
    /\ atStop = {}
    /\ retrying = "none"

\* every record of the body has been POSTed once more
CountPost(body) ==
    [i \in Ids |-> IF \E k \in 1..Len(body) : body[k] = i
                   THEN postCount[i] + 1 ELSE postCount[i]]

SeqToSet(s) == {s[k] : k \in 1..Len(s)}

\* ================================================================ in-memory
\* MemQueueDelivery (delivery/mem_queue.py)

\* queue.put_nowait: queue.Full when qsize() >= maxsize
QueueFull == Len(queue) >= queue_size

\* faulty variant: the drop on a full queue is only logged
MemEnqueueDropUncounted == total_failed

\* enqueue(): put_nowait, and on queue.Full count the drop
MemEnqueueDropCounted == total_failed + 1

MemEnqueue ==
    /\ strategy = "mem"
    /\ nextId <= MaxRecords
    /\ nextId' = nextId + 1
    /\ IF ~QueueFull
       THEN /\ queue' = Append(queue, nextId)
            /\ total_failed' = total_failed
            /\ failedIds' = failedIds
            /\ trackResult' = "queued"
       ELSE /\ queue' = queue
            /\ total_failed' = MemEnqueueDropCounted
            /\ failedIds' = IF total_failed' > total_failed
                            THEN failedIds \cup {nextId} ELSE failedIds
            /\ trackResult' = "dropped"
    /\ UNCHANGED ghostVars /\ UNCHANGED << strategy, batch, pc, site, attempt, stopFlag, stopPc, stops,
                    closed, total_sent, postCount, acked >>
    /\ UNCHANGED dbVars /\ UNCHANGED iniVars
    /\ UNCHANGED extVars

\* _run: `while not self._stop.is_set()`
MemLoopTest ==
    /\ strategy \in {"mem", "race"}
    /\ pc = "loop"
    /\ pc' = IF stopFlag THEN "drain" ELSE "get"
    /\ UNCHANGED ghostVars /\ UNCHANGED << strategy, queue, nextId, batch, site, attempt, stopFlag,
                    stopPc, stops, closed, total_sent, total_failed, postCount, acked, failedIds, trackResult >>
    /\ UNCHANGED dbVars /\ UNCHANGED iniVars
    /\ UNCHANGED extVars

\* the count of _send_batch calls made under the stop flag, once the worker
\* has moved to position p
ShipsAfter(p) == IF p = "send" /\ stopFlag THEN shipsAfterStop + 1 ELSE shipsAfterStop

\* _run: queue.get(timeout=batch_interval) returned an item; the batch is sent
\* when full, or when batch_interval has elapsed since last_flush
MemGet ==
    /\ strategy \in {"mem", "race"}
    /\ pc = "get"
    /\ queue # << >>
    /\ queue' = Tail(queue)
    /\ batch' = Append(batch, Head(queue))
    /\ \E elapsed \in BOOLEAN :
         IF Len(batch') >= max_batch_size \/ elapsed
         THEN pc' = "send" /\ site' = "loop" /\ attempt' = 0
         ELSE pc' = "loop" /\ UNCHANGED << site, attempt >>
    /\ shipsAfterStop' = ShipsAfter(pc')
    /\ UNCHANGED << cost_events, atStop, retrying >>
    /\ UNCHANGED << strategy, nextId, stopFlag, stopPc, stops, closed, total_sent,
                    total_failed, postCount, acked, failedIds, trackResult >>
    /\ UNCHANGED dbVars /\ UNCHANGED iniVars
    /\ UNCHANGED extVars

\* _run: queue.get timed out (queue.Empty) after batch_interval
MemGetEmpty ==
    /\ strategy \in {"mem", "race"}
    /\ pc = "get"
    /\ queue = << >>
    /\ IF batch # << >>
       THEN pc' = "send" /\ site' = "loop" /\ attempt' = 0
       ELSE pc' = "loop" /\ UNCHANGED << site, attempt >>
    /\ shipsAfterStop' = ShipsAfter(pc')
    /\ UNCHANGED << cost_events, atStop, retrying >>
    /\ UNCHANGED << strategy, queue, nextId, batch, stopFlag, stopPc, stops,
                    closed, total_sent, total_failed, postCount, acked, failedIds,
                    trackResult >>
    /\ UNCHANGED dbVars /\ UNCHANGED iniVars
    /\ UNCHANGED extVars

\* faulty variant: the thread returns after any shipment
MemAfterSendReturn == "done"

\* where _run continues after _send_batch returned
MemAfterSend == IF site = "final" THEN "done" ELSE site

\* position of the worker once Retrying has given up: RetryError leaves
\* _send_batch and _run uncaught, the thread ends
MemAfterGiveUp == "dead"

\* _send_batch: one attempt of the Retrying loop
MemPost ==
    /\ strategy \in {"mem", "race"}
    /\ pc = "send"
    /\ \E outcome \in Outcomes :
         /\ postCount' = CountPost(batch)
         /\ IF ~RetryAll(outcome)
            THEN /\ total_sent' = total_sent + Len(batch)
                 /\ acked' = acked \cup SeqToSet(batch)
                 /\ batch' = << >>
                 /\ pc' = MemAfterSend
                 /\ attempt' = 0
            ELSE /\ attempt' = attempt + 1
                 /\ pc' = IF attempt + 1 >= max_retries THEN MemAfterGiveUp ELSE "send"
                 /\ UNCHANGED << total_sent, acked, batch >>
         /\ retrying' = RetryPending(outcome, pc')
    /\ UNCHANGED << cost_events, shipsAfterStop, atStop >>
    /\ UNCHANGED << strategy, queue, nextId, site, stopFlag, stopPc, stops, closed,
                    total_failed, failedIds, trackResult >>
    /\ UNCHANGED dbVars /\ UNCHANGED iniVars
    /\ UNCHANGED extVars

\* _run after the stop flag: get_nowait until queue.Empty
MemDrainGet ==
    /\ strategy = "mem"
    /\ pc = "drain"
    /\ queue # << >>
    /\ queue' = Tail(queue)
    /\ batch' = Append(batch, Head(queue))
    /\ IF Len(batch') >= max_batch_size
       THEN pc' = "send" /\ site' = "drain" /\ attempt' = 0
       ELSE UNCHANGED << pc, site, attempt >>
    /\ shipsAfterStop' = ShipsAfter(pc')
    /\ UNCHANGED << cost_events, atStop, retrying >>
    /\ UNCHANGED << strategy, nextId, stopFlag, stopPc, stops, closed, total_sent,
                    total_failed, postCount, acked, failedIds, trackResult >>
    /\ UNCHANGED dbVars /\ UNCHANGED iniVars
    /\ UNCHANGED extVars

\* _run: queue.Empty in the drain loop, final send, self._client.close()
MemDrainEmpty ==
    /\ strategy = "mem"
    /\ pc = "drain"
    /\ queue = << >>
    /\ IF batch # << >>
       THEN pc' = "send" /\ site' = "final" /\ attempt' = 0
       ELSE pc' = "done" /\ UNCHANGED << site, attempt >>
    /\ shipsAfterStop' = ShipsAfter(pc')
    /\ UNCHANGED << cost_events, atStop, retrying >>
    /\ UNCHANGED << strategy, queue, nextId, batch, stopFlag, stopPc, stops,
                    closed, total_sent, total_failed, postCount, acked, failedIds,
                    trackResult >>
    /\ UNCHANGED dbVars /\ UNCHANGED iniVars
    /\ UNCHANGED extVars

\* the worker thread has ended (normally or by an uncaught exception)
WorkerEnded == pc \in {"done", "dead"}

\* stop(): self._stop.set(), then self._thread.join()
MemStop ==
    /\ strategy = "mem"
    /\ stopPc = "idle"
    /\ stops < MaxStops
    /\ stopFlag' = TRUE
    /\ stopPc' = "joining"
    /\ UNCHANGED ghostVars /\ UNCHANGED << strategy, queue, nextId, batch, pc, site, attempt, stops,
                    closed, total_sent, total_failed, postCount, acked, failedIds,
                    trackResult >>
    /\ UNCHANGED dbVars /\ UNCHANGED iniVars
    /\ UNCHANGED extVars

\* stop(): join() returns once the thread has ended
MemStopReturn ==
    /\ strategy = "mem"
    /\ stopPc = "joining"
    /\ WorkerEnded
    /\ stopPc' = "idle"
    /\ stops' = stops + 1
    /\ UNCHANGED ghostVars /\ UNCHANGED << strategy, queue, nextId, batch, pc, site, attempt, stopFlag,
                    closed, total_sent, total_failed, postCount, acked, failedIds,
                    trackResult >>
    /\ UNCHANGED dbVars /\ UNCHANGED iniVars
    /\ UNCHANGED extVars

InitMem == strategy = "mem" /\ pc = "loop" /\ InitCommon /\ FileIdle /\ StreamIdle /\ GlobalIdle /\ SharedIdle /\ RaceIdle

NextMem ==
    \/ MemEnqueue
    \/ MemLoopTest
    \/ MemGet
    \/ MemGetEmpty
    \/ MemPost
    \/ MemDrainGet
    \/ MemDrainEmpty
    \/ MemStop
    \/ MemStopReturn

SpecMem == InitMem /\ [][NextMem]_vars


\* concurrent callers of enqueue() (delivery/mem_queue.py): several threads
\* call enqueue of one MemQueueDelivery while its worker runs.  queue.Queue
\* is locked inside put_nowait; `self._total_failed += 1` is a load and a
\* store of the attribute with nothing that excludes another thread between
\* them.

\* the records enqueue() has accepted so far
Accepted == SeqToSet(queue) \cup SeqToSet(batch) \cup acked

\* the records dropped on a full queue
Dropped == (nextId - 1) - Cardinality(Accepted)

\* what the callers leave alone
raceIdle == << strategy, batch, pc, site, attempt, stopFlag, stopPc, stops, closed,
               total_sent, postCount, acked, failedIds, ghostVars, dbVars, iniVars,
               fileVars, streamVars, globalVars, sharedVars, first_ts >>

\* enqueue(): self._queue.put_nowait(payload); queue.Full is caught
CPut(t) ==
    /\ strategy = "race"
    /\ callers[t].pc = "idle"
    /\ nextId <= MaxRecords
    /\ nextId' = nextId + 1
    /\ IF ~QueueFull
       THEN /\ queue' = Append(queue, nextId)
            /\ trackResult' = "queued"
            /\ UNCHANGED callers
       ELSE /\ queue' = queue
            /\ trackResult' = "dropped"
            /\ callers' = [callers EXCEPT ![t].pc = "load"]
    /\ UNCHANGED total_failed
    /\ UNCHANGED raceIdle

\* enqueue(): `self._total_failed += 1`, the load of the attribute
CLoad(t) ==
    /\ strategy = "race"
    /\ callers[t].pc = "load"
    /\ callers' = [callers EXCEPT ![t].pc = "store", ![t].tmp = total_failed]
    /\ UNCHANGED << queue, nextId, trackResult, total_failed >>
    /\ UNCHANGED raceIdle

\* enqueue(): `self._total_failed += 1`, the store of the sum
CStore(t) ==
    /\ strategy = "race"
    /\ callers[t].pc = "store"
    /\ total_failed' = callers[t].tmp + 1
    /\ callers' = [callers EXCEPT ![t].pc = "idle", ![t].tmp = 0]
    /\ UNCHANGED << queue, nextId, trackResult >>
    /\ UNCHANGED raceIdle

InitRace ==
    /\ strategy = "race"
    /\ pc = "loop"
    /\ InitCommon /\ FileIdle /\ StreamIdle /\ GlobalIdle /\ SharedIdle /\ RaceIdle

NextRace ==
    \/ \E t \in Threads : CPut(t)
    \/ \E t \in Threads : CLoad(t)
    \/ \E t \in Threads : CStore(t)
    \/ MemLoopTest
    \/ MemGet
    \/ MemGetEmpty
    \/ MemPost

SpecRace == InitRace /\ [][NextRace]_vars

\* =============================================================== persistent
\* PersistentDelivery (delivery/persistent.py)

\* the variables the persistent strategy never touches
memVars == << queue, site, total_sent, total_failed, failedIds >>

Min(a, b) == IF a <= b THEN a ELSE b

RECURSIVE SortAsc(_)
SortAsc(S) ==
    IF S = {} THEN << >>
    ELSE LET m == CHOOSE x \in S : \A y \in S : x <= y
         IN << m >> \o SortAsc(S \ {m})

RECURSIVE SortDesc(_)
SortDesc(S) ==
    IF S = {} THEN << >>
    ELSE LET m == CHOOSE x \in S : \A y \in S : x >= y
         IN << m >> \o SortDesc(S \ {m})

\* faulty variant: rows that have failed are selected as well
EligibleAlsoFailed ==
    {i \in Ids : rows[i].status \in {"queued", "failed"} /\ rows[i].scheduled_at <= now}

\* _get_batch: WHERE status='queued' AND scheduled_at <= ?
Eligible == {i \in Ids : rows[i].status = "queued" /\ rows[i].scheduled_at <= now}

\* faulty variant: the newest rows are picked first
OrderByIdDesc(S) == SortDesc(S)

\* _get_batch: ORDER BY id
OrderById(S) == SortAsc(S)

\* faulty variant: the newest eligible row alone (ORDER BY id DESC LIMIT 1)
SelectBatchNewest(limit) == SubSeq(OrderByIdDesc(Eligible), 1, Min(1, Cardinality(Eligible)))

\* _get_batch: ORDER BY id LIMIT ?
SelectBatch(limit) ==
    LET all == OrderById(Eligible)
    IN SubSeq(all, 1, Min(limit, Len(all)))

\* enqueue(): INSERT ... VALUES (?, 'queued', 0, now, now, now); a closed
\* connection raises sqlite3.ProgrammingError to the caller
PEnqueue ==
    /\ strategy = "persistent"
    /\ nextId <= MaxRecords
    /\ nextId' = nextId + 1
    /\ IF closed
       THEN rows' = rows /\ trackResult' = "ioerror"
       ELSE /\ rows' = [rows EXCEPT ![nextId] =
                          [status |-> "queued", retry_count |-> 0, scheduled_at |-> now]]
            /\ trackResult' = "queued"
    /\ UNCHANGED ghostVars /\ UNCHANGED << strategy, batch, pc, attempt, stopFlag, stopPc, stops, closed,
                    postCount, acked, now, crashes >>
    /\ UNCHANGED memVars /\ UNCHANGED iniVars
    /\ UNCHANGED extVars

\* time passes
Tick ==
    /\ strategy \in {"persistent", "legacy", "shared"}
    /\ now < MaxTime
    /\ now' = now + 1
    /\ UNCHANGED ghostVars /\ UNCHANGED << strategy, rows, nextId, batch, pc, attempt, stopFlag, stopPc,
                    stops, closed, postCount, acked, trackResult, crashes >>
    /\ UNCHANGED memVars /\ UNCHANGED iniVars
    /\ UNCHANGED extVars

\* where _run_worker goes once the stop flag is set: the loop ends and the
\* thread returns, without another _get_batch
PAfterStop == "done"

\* _run_worker: `while not self._stop_event.is_set()`
PLoopTest ==
    /\ strategy = "persistent"
    /\ pc = "loop"
    /\ pc' = IF stopFlag THEN PAfterStop ELSE "pick"
    /\ UNCHANGED ghostVars /\ UNCHANGED << strategy, rows, nextId, batch, attempt, stopFlag, stopPc, stops,
                    closed, postCount, acked, now, trackResult, crashes >>
    /\ UNCHANGED memVars /\ UNCHANGED iniVars
    /\ UNCHANGED extVars

\* _run_worker: rows = self._get_batch(); nothing eligible: sleep(poll_interval)
PGetBatch ==
    /\ strategy = "persistent"
    /\ pc = "pick"
    /\ LET picked == SelectBatch(batch_limit)
       IN IF picked = << >>
          THEN /\ pc' = "loop"
               /\ UNCHANGED << rows, batch, attempt >>
          ELSE /\ rows' = [i \in Ids |->
                             IF i \in SeqToSet(picked)
                             THEN [rows[i] EXCEPT !.status = "processing"]
                             ELSE rows[i]]
               /\ batch' = picked
               /\ attempt' = 0
               /\ pc' = "post"
    /\ UNCHANGED ghostVars /\ UNCHANGED << strategy, nextId, stopFlag, stopPc, stops, closed, postCount, acked, now, trackResult, crashes >>
    /\ UNCHANGED memVars /\ UNCHANGED iniVars
    /\ UNCHANGED extVars

\* _retryable: anything but an HTTP status below 500 is retried
Retryable(outcome) == outcome \in {"5xx", "net"}

\* _run_worker: one attempt of the Retrying loop around self._client.post
PPost ==
    /\ strategy = "persistent"
    /\ pc = "post"
    /\ \E outcome \in Outcomes :
         /\ postCount' = CountPost(batch)
         /\ IF outcome = "2xx"
            THEN /\ pc' = "ack"
                 /\ acked' = acked \cup SeqToSet(batch)
                 /\ attempt' = 0
            ELSE /\ attempt' = attempt + 1
                 /\ pc' = IF Retryable(outcome) /\ attempt + 1 < max_attempts
                          THEN "post" ELSE "resched"
                 /\ acked' = acked
         /\ retrying' = RetryPending(outcome, pc')
    /\ UNCHANGED << cost_events, shipsAfterStop, atStop >>
    /\ UNCHANGED << strategy, rows, nextId, batch, stopFlag, stopPc, stops, closed,
                    now, trackResult, crashes >>
    /\ UNCHANGED memVars /\ UNCHANGED iniVars
    /\ UNCHANGED extVars

\* faulty variant: only the first row of the batch is deleted
DeleteRowsFirstOnly(ids) ==
    [i \in Ids |-> IF i \in ids /\ (\A j \in ids : i <= j) THEN NoRow ELSE rows[i]]

\* _run_worker, else branch: DELETE FROM queue WHERE id=? for the batch
DeleteRows(ids) == [i \in Ids |-> IF i \in ids THEN NoRow ELSE rows[i]]

PAck ==
    /\ strategy = "persistent"
    /\ pc = "ack"
    /\ rows' = DeleteRows(SeqToSet(batch))
    /\ batch' = << >>
    /\ pc' = "loop"
    /\ UNCHANGED ghostVars /\ UNCHANGED << strategy, nextId, attempt, stopFlag, stopPc, stops, closed,
                    postCount, acked, now, trackResult, crashes >>
    /\ UNCHANGED memVars /\ UNCHANGED iniVars
    /\ UNCHANGED extVars

\* faulty variant: the delay doubles without a cap
BackoffUncapped(retry_count) == 2 ^ retry_count

\* _reschedule: min(2**retry_count, 300)
Backoff(retry_count) == Min(2 ^ retry_count, 300)

\* faulty variant: the bound is tested one retry too late
GivesUpLate(retry_count) == retry_count > max_retries

\* _reschedule: `if retry_count >= self.max_retries`
GivesUp(retry_count) == retry_count >= max_retries

\* _reschedule(row_id, retry_count): the row after the UPDATE, where
\* gives_up is the outcome of `retry_count >= self.max_retries`
RescheduledAt(gives_up, retry_count) ==
    IF gives_up
    THEN [status |-> "failed", retry_count |-> retry_count, scheduled_at |-> now]
    ELSE [status |-> "queued", retry_count |-> retry_count,
          scheduled_at |-> now + Backoff(retry_count)]

\* faulty variant: a row that has used up its retries is deleted
RescheduledOrDropped(retry_count) ==
    IF GivesUp(retry_count)
    THEN NoRow
    ELSE [status |-> "queued", retry_count |-> retry_count,
          scheduled_at |-> now + Backoff(retry_count)]

\* _reschedule(row_id, retry_count) with the configured max_retries
Rescheduled(retry_count) == RescheduledAt(GivesUp(retry_count), retry_count)

\* _run_worker, except branch: _reschedule(row["id"], row["retry_count"] + 1)
PReschedule ==
    /\ strategy = "persistent"
    /\ pc = "resched"
    /\ rows' = [i \in Ids |->
                  IF i \in SeqToSet(batch)
                  THEN Rescheduled(rows[i].retry_count + 1)
                  ELSE rows[i]]
    /\ batch' = << >>
    /\ attempt' = 0
    /\ pc' = "loop"
    /\ UNCHANGED ghostVars /\ UNCHANGED << strategy, nextId, stopFlag, stopPc, stops, closed, postCount, acked, now, trackResult, crashes >>
    /\ UNCHANGED memVars /\ UNCHANGED iniVars
    /\ UNCHANGED extVars

\* stop(): self._stop_event.set(), then self._worker.join()
PStop ==
    /\ strategy = "persistent"
    /\ stopPc = "idle"
    /\ stops < MaxStops
    /\ stopFlag' = TRUE
    /\ stopPc' = "joining"
    /\ UNCHANGED ghostVars /\ UNCHANGED << strategy, rows, nextId, batch, pc, attempt, stops, closed,
                    postCount, acked, now, trackResult, crashes >>
    /\ UNCHANGED memVars /\ UNCHANGED iniVars
    /\ UNCHANGED extVars

\* stop(): join() has returned; self._client.close(); self.conn.close()
PStopReturn ==
    /\ strategy = "persistent"
    /\ stopPc = "joining"
    /\ WorkerEnded
    /\ stopPc' = "idle"
    /\ stops' = stops + 1
    /\ closed' = TRUE
    /\ UNCHANGED ghostVars /\ UNCHANGED << strategy, rows, nextId, batch, pc, attempt, stopFlag, postCount, acked, now, trackResult, crashes >>
    /\ UNCHANGED memVars /\ UNCHANGED iniVars
    /\ UNCHANGED extVars

\* what __init__ does to the table of an earlier run: CREATE TABLE IF NOT
\* EXISTS keeps every row as it is
RowsAtStartup == rows

\* the process is killed and started again: __init__ reopens the database
\* and starts a new worker; everything held in memory is gone
PKillRestart ==
    /\ strategy = "persistent"
    /\ crashes < MaxCrashes
    /\ crashes' = crashes + 1
    /\ rows' = RowsAtStartup
    /\ batch' = << >>
    /\ pc' = "loop"
    /\ attempt' = 0
    /\ stopFlag' = FALSE
    /\ stopPc' = "idle"
    /\ closed' = FALSE
    /\ acked' = {}
    /\ stops' = 0
    /\ retrying' = "none"
    /\ UNCHANGED << cost_events, shipsAfterStop, atStop >>
    /\ UNCHANGED << strategy, nextId, postCount, now, trackResult >>
    /\ UNCHANGED memVars /\ UNCHANGED iniVars
    /\ UNCHANGED extVars

InitPersistent == strategy = "persistent" /\ pc = "loop" /\ InitCommon /\ FileIdle /\ StreamIdle /\ GlobalIdle /\ SharedIdle /\ RaceIdle

PWorker == PLoopTest \/ PGetBatch \/ PPost \/ PAck \/ PReschedule

NextPersistent ==
    \/ PEnqueue
    \/ Tick
    \/ PLoopTest
    \/ PGetBatch
    \/ PPost
    \/ PAck
    \/ PReschedule
    \/ PStop
    \/ PStopReturn
    \/ PKillRestart

SpecPersistent == InitPersistent /\ [][NextPersistent]_vars

\* the worker thread keeps running while it has a step to take
FairSpecPersistent == SpecPersistent /\ WF_vars(PWorker)


\* ========================================================= legacy persistent
\* PersistentDelivery (persistent_delivery.py): the same table, a worker that
\* buffers picked rows and flushes the buffer

\* the variables the legacy strategy never touches
legacyIdle == << queue, total_sent, total_failed, failedIds, crashes >>

\* enqueue(): INSERT ... VALUES (?, 'queued', 0, now, now, now)
LEnqueue ==
    /\ strategy = "legacy"
    /\ nextId <= MaxRecords
    /\ nextId' = nextId + 1
    /\ IF closed
       THEN rows' = rows /\ trackResult' = "ioerror"
       ELSE /\ rows' = [rows EXCEPT ![nextId] =
                          [status |-> "queued", retry_count |-> 0, scheduled_at |-> now]]
            /\ trackResult' = "queued"
    /\ UNCHANGED << strategy, batch, pc, site, attempt, stopFlag, stopPc, stops, closed,
                    postCount, acked, now >>
    /\ UNCHANGED legacyIdle /\ UNCHANGED iniVars /\ UNCHANGED ghostVars
    /\ UNCHANGED extVars

\* _run_worker: `while not self._stop_event.is_set()`, then the final flush
LLoopTest ==
    /\ strategy = "legacy"
    /\ pc = "loop"
    /\ pc' = IF stopFlag THEN "final" ELSE "fill"
    /\ UNCHANGED << strategy, rows, nextId, batch, site, attempt, stopFlag, stopPc, stops,
                    closed, postCount, acked, now, trackResult >>
    /\ UNCHANGED legacyIdle /\ UNCHANGED iniVars /\ UNCHANGED ghostVars
    /\ UNCHANGED extVars

\* _run_worker: needed = 100 - len(buffer)
Needed == batch_limit - Len(batch)

\* faulty variant: a buffer is flushed as soon as it holds a row
ShouldFlushAtOnce(b, elapsed) == b # << >>

\* _run_worker: should_flush, for a buffer b; `elapsed` says that
\* batch_interval has passed since first_ts
ShouldFlush(b, elapsed) == b # << >> /\ (Len(b) >= batch_limit \/ elapsed)

\* _run_worker: first_ts is not None and (time.time() - first_ts) >= batch_interval;
\* the clock shows whole seconds: more than a second has passed for sure
\* when it shows two seconds more
Elapsed(ts) == ts.at # NoTime /\ (ts.elapsed \/ now - ts.at > batch_interval)

\* time passes: batch_interval since the first row of the buffer was picked
LInterval ==
    /\ strategy = "legacy"
    /\ first_ts.at # NoTime
    /\ ~first_ts.elapsed
    /\ first_ts' = [first_ts EXCEPT !.elapsed = TRUE]
    /\ UNCHANGED << strategy, rows, nextId, batch, pc, site, attempt, stopFlag, stopPc, stops,
                    closed, postCount, acked, now, trackResult >>
    /\ UNCHANGED legacyIdle /\ UNCHANGED iniVars /\ UNCHANGED ghostVars
    /\ UNCHANGED idleVars

\* _run_worker, loop body: fill the buffer with _get_batch(needed), then
\* flush or sleep
LFill ==
    /\ strategy = "legacy"
    /\ pc = "fill"
    /\ LET picked == IF Needed > 0 THEN SelectBatch(Needed) ELSE << >>
       IN /\ rows' = [i \in Ids |->
                        IF i \in SeqToSet(picked)
                        THEN [rows[i] EXCEPT !.status = "processing"]
                        ELSE rows[i]]
          /\ batch' = batch \o picked
          /\ first_ts' = IF picked # << >> /\ first_ts.at = NoTime
                          THEN [at |-> now, elapsed |-> FALSE] ELSE first_ts
    /\ IF ShouldFlush(batch', Elapsed(first_ts'))
       THEN pc' = "post" /\ site' = "loop" /\ attempt' = 0
       ELSE pc' = "loop" /\ UNCHANGED << site, attempt >>
    /\ UNCHANGED << strategy, nextId, stopFlag, stopPc, stops, closed, postCount, acked,
                    now, trackResult >>
    /\ UNCHANGED legacyIdle /\ UNCHANGED iniVars /\ UNCHANGED ghostVars
    /\ UNCHANGED idleVars

\* deliver_batch: one attempt of Retrying(stop=stop_after_attempt(max_attempts))
\* around _send_batch_once; without retry= every failure is retried. A
\* client closed by stop() raises before any request is sent.
LPost ==
    /\ strategy = "legacy"
    /\ pc = "post"
    /\ IF closed
       THEN /\ attempt' = attempt + 1
            /\ pc' = IF attempt + 1 < max_attempts THEN "post" ELSE "resched"
            /\ retrying' = RetryPending("net", pc')
            /\ UNCHANGED << postCount, acked >>
       ELSE \E outcome \in Outcomes :
              /\ postCount' = CountPost(batch)
              /\ IF outcome = "2xx"
                 THEN /\ pc' = "ack"
                      /\ acked' = acked \cup SeqToSet(batch)
                      /\ attempt' = 0
                 ELSE /\ attempt' = attempt + 1
                      /\ pc' = IF RetryAll(outcome) /\ attempt + 1 < max_attempts
                               THEN "post" ELSE "resched"
                      /\ acked' = acked
              /\ retrying' = RetryPending(outcome, pc')
    /\ UNCHANGED << strategy, rows, nextId, batch, site, stopFlag, stopPc, stops, closed,
                    now, trackResult >>
    /\ UNCHANGED legacyIdle /\ UNCHANGED iniVars
    /\ UNCHANGED << cost_events, shipsAfterStop, atStop >>
    /\ UNCHANGED extVars

\* where _run_worker continues after _flush_buffer
LAfterFlush == IF site = "final" THEN "done" ELSE "loop"

\* _flush_buffer after deliver_batch returned: _delete every row of the
\* buffer, buffer.clear(). On a connection closed by stop() the DELETE and the
\* _reschedule of the except branch both raise: the thread ends.
LAck ==
    /\ strategy = "legacy"
    /\ pc = "ack"
    /\ IF closed
       THEN pc' = "dead" /\ UNCHANGED << rows, batch, first_ts >>
       ELSE /\ rows' = DeleteRows(SeqToSet(batch))
            /\ batch' = << >>
            /\ first_ts' = NoFirstTs
            /\ pc' = LAfterFlush
    /\ UNCHANGED << strategy, nextId, site, attempt, stopFlag, stopPc, stops, closed,
                    postCount, acked, now, trackResult >>
    /\ UNCHANGED legacyIdle /\ UNCHANGED iniVars /\ UNCHANGED ghostVars
    /\ UNCHANGED idleVars

\* _flush_buffer, except branch: _reschedule(row["id"], row["retry_count"] + 1)
LReschedule ==
    /\ strategy = "legacy"
    /\ pc = "resched"
    /\ IF closed
       THEN pc' = "dead" /\ UNCHANGED << rows, batch, first_ts >>
       ELSE /\ rows' = [i \in Ids |->
                          IF i \in SeqToSet(batch)
                          THEN Rescheduled(rows[i].retry_count + 1)
                          ELSE rows[i]]
            /\ batch' = << >>
            /\ first_ts' = NoFirstTs
            /\ pc' = LAfterFlush
    /\ attempt' = 0
    /\ UNCHANGED << strategy, nextId, site, stopFlag, stopPc, stops, closed, postCount,
                    acked, now, trackResult >>
    /\ UNCHANGED legacyIdle /\ UNCHANGED iniVars /\ UNCHANGED ghostVars
    /\ UNCHANGED idleVars

\* _run_worker after the loop: `if buffer: self._flush_buffer(buffer)`
LFinal ==
    /\ strategy = "legacy"
    /\ pc = "final"
    /\ IF batch # << >>
       THEN pc' = "post" /\ site' = "final" /\ attempt' = 0
       ELSE pc' = "done" /\ UNCHANGED << site, attempt >>
    /\ UNCHANGED << strategy, rows, nextId, batch, stopFlag, stopPc, stops, closed,
                    postCount, acked, now, trackResult >>
    /\ UNCHANGED legacyIdle /\ UNCHANGED iniVars /\ UNCHANGED ghostVars
    /\ UNCHANGED extVars

\* stop(): self._stop_event.set(), then self._worker.join(timeout=5)
LStop ==
    /\ strategy = "legacy"
    /\ stopPc = "idle"
    /\ stops < MaxStops
    /\ stopFlag' = TRUE
    /\ stopPc' = "joining"
    /\ UNCHANGED << strategy, rows, nextId, batch, pc, site, attempt, stops, closed,
                    postCount, acked, now, trackResult >>
    /\ UNCHANGED legacyIdle /\ UNCHANGED iniVars /\ UNCHANGED ghostVars
    /\ UNCHANGED extVars

\* join(timeout=5) returns when the thread has ended, or after 5 seconds
\* while the worker is still in the Retrying loop of deliver_batch (request
\* timeout 10 s, waits of up to 10 s between attempts)
JoinReturns == WorkerEnded \/ pc = "post"

\* stop(): join(timeout=5) has returned; self._client.close(); self.conn.close()
LStopReturn ==
    /\ strategy = "legacy"
    /\ stopPc = "joining"
    /\ JoinReturns
    /\ stopPc' = "idle"
    /\ stops' = stops + 1
    /\ closed' = TRUE
    /\ UNCHANGED << strategy, rows, nextId, batch, pc, site, attempt, stopFlag, postCount,
                    acked, now, trackResult >>
    /\ UNCHANGED legacyIdle /\ UNCHANGED iniVars /\ UNCHANGED ghostVars
    /\ UNCHANGED extVars

InitLegacy == strategy = "legacy" /\ pc = "loop" /\ InitCommon /\ FileIdle /\ StreamIdle /\ GlobalIdle /\ SharedIdle /\ RaceIdle

NextLegacy ==
    \/ LEnqueue
    \/ Tick
    \/ LInterval
    \/ LLoopTest
    \/ LFill
    \/ LPost
    \/ LAck
    \/ LReschedule
    \/ LFinal
    \/ LStop
    \/ LStopReturn

SpecLegacy == InitLegacy /\ [][NextLegacy]_vars


\* ================================================================ immediate
\* ImmediateDelivery (delivery/immediate.py): enqueue ships in the caller's
\* thread; pc is the position of the caller inside enqueue

\* stop_after_attempt(3)
immediate_attempts == 3

\* the variables the immediate strategy never touches
immediateIdle == << queue, rows, site, stopFlag, stopPc, total_sent, total_failed,
                    failedIds, now, crashes, shipsAfterStop, atStop >>

\* Tracker.track -> ImmediateDelivery.enqueue: body = {"tracked": [payload]}
ITrack ==
    /\ strategy = "immediate"
    /\ pc = "idle"
    /\ nextId <= MaxRecords
    /\ nextId' = nextId + 1
    /\ batch' = << nextId >>
    /\ attempt' = 0
    /\ pc' = "post"
    /\ trackResult' = "pending"
    /\ cost_events' = "none"
    /\ UNCHANGED << strategy, stops, closed, postCount, acked, retrying >>
    /\ UNCHANGED immediateIdle /\ UNCHANGED iniVars
    /\ UNCHANGED extVars

\* faulty variant: one attempt more before giving up
ImmediateGivesUpLate(failed) == failed > immediate_attempts

\* Retrying(stop=stop_after_attempt(3)): no further attempt after `failed`
\* failed ones
ImmediateGivesUp(failed) == failed >= immediate_attempts

\* what enqueue hands back after a 2xx whose result carries the cost events
\* `ce`: `return None`, the body of the response is not read
EnqueueReturns(ce) == "returned"

\* faulty variant: the failure is logged and enqueue returns
EnqueueSwallows(exc) == "returned"

\* `except Exception as exc: self.logger.exception(...); raise`: the failure
\* leaves enqueue, and Tracker.track, which has no handler, as it is
EnqueueRaises(exc) == exc

\* enqueue: one attempt of the Retrying loop. A failure that _retryable
\* rejects is re-raised as it is (HTTPStatusError); when the attempts are
\* used up tenacity raises RetryError; both pass the `except ... raise`.
\* A client closed by stop() raises before any request is sent.
IPost ==
    /\ strategy = "immediate"
    /\ pc = "post"
    /\ IF closed
       THEN /\ attempt' = attempt + 1
            /\ IF ImmediateGivesUp(attempt + 1)
               THEN pc' = "idle" /\ trackResult' = EnqueueRaises("RetryError") /\ batch' = << >>
               ELSE UNCHANGED << pc, trackResult, batch >>
            /\ retrying' = RetryPending("net", pc')
            /\ UNCHANGED << postCount, acked, cost_events >>
       ELSE \E outcome \in Outcomes :
              /\ postCount' = CountPost(batch)
              /\ IF outcome = "2xx"
                 THEN /\ \E ce \in {"empty", "some"} :
                           /\ cost_events' = ce
                           /\ trackResult' = EnqueueReturns(ce)
                      /\ acked' = acked \cup SeqToSet(batch)
                      /\ pc' = "idle"
                      /\ batch' = << >>
                      /\ attempt' = attempt
                 ELSE /\ attempt' = attempt + 1
                      /\ IF ~Retryable(outcome)
                         THEN pc' = "idle" /\ trackResult' = EnqueueRaises("HTTPStatusError") /\ batch' = << >>
                         ELSE IF ImmediateGivesUp(attempt + 1)
                         THEN pc' = "idle" /\ trackResult' = EnqueueRaises("RetryError") /\ batch' = << >>
                         ELSE UNCHANGED << pc, trackResult, batch >>
                      /\ UNCHANGED << acked, cost_events >>
              /\ retrying' = RetryPending(outcome, pc')
    /\ UNCHANGED << strategy, nextId, stops, closed >>
    /\ UNCHANGED immediateIdle /\ UNCHANGED iniVars
    /\ UNCHANGED extVars

\* stop(): self._client.close()
IStop ==
    /\ strategy = "immediate"
    /\ stops < MaxStops
    /\ closed' = TRUE
    /\ stops' = stops + 1
    /\ UNCHANGED << strategy, nextId, batch, pc, attempt, postCount, acked, trackResult,
                    cost_events, retrying >>
    /\ UNCHANGED immediateIdle /\ UNCHANGED iniVars
    /\ UNCHANGED extVars

InitImmediate == strategy = "immediate" /\ pc = "idle" /\ InitCommon /\ FileIdle /\ StreamIdle /\ GlobalIdle /\ SharedIdle /\ RaceIdle

NextImmediate ==
    \/ ITrack
    \/ IPost
    \/ IStop

SpecImmediate == InitImmediate /\ [][NextImmediate]_vars


\* ========================================================= triggered limits
\* The signed envelope is represented by what its verified claims hold.

\* self.api_key of the delivery
ApiKey == "k1"

NoScope == [service_id |-> None, vendor |-> None, service_key |-> None,
            client_customer_key |-> None]

\* a `limit` event on service A for this API key
EventA == [NoScope EXCEPT !.service_id = "A"] @@
          [threshold_type |-> "limit", api_key_id |-> ApiKey]

\* a `limit` event on service B of customer c1 for this API key
EventB == [NoScope EXCEPT !.service_id = "B", !.client_customer_key = "c1"] @@
          [threshold_type |-> "limit", api_key_id |-> ApiKey]

\* an `alert` event on service A for this API key
EventAlert == [EventA EXCEPT !.threshold_type = "alert"]

\* a `limit` event with no scoping field for this API key
EventAll == NoScope @@ [threshold_type |-> "limit", api_key_id |-> ApiKey]

\* a `limit` event that names service A by the flat key "v::A"
EventKeyA == [NoScope EXCEPT !.service_key = "v::A"] @@
             [threshold_type |-> "limit", api_key_id |-> ApiKey]

\* the envelopes the server hands out
EnvelopeNames == {"EnvA", "EnvB", "EnvAlert", "EnvAll", "EnvKeyA"}

\* faulty variant: the token is decoded without verification
VerifiesAlways(env) == TRUE

\* jwt.decode(token, public_key, algorithms=["RS256"], issuer="aicm-api")
\* accepts the envelope; "EnvForged" carries the claims of EnvA under a
\* signature that does not verify
Verifies(env) == env # "EnvForged"

\* the triggered_limits claim an envelope carries
Claimed(env) ==
    CASE env \in {"EnvA", "EnvForged"} -> {EventA}
      [] env = "EnvB" -> {EventB}
      [] env = "EnvAlert" -> {EventAlert}
      [] env = "EnvAll" -> {EventAll}
      [] env = "EnvKeyA" -> {EventKeyA}
      [] OTHER -> {}

\* _decode: the verified claims, None ("return []") when jwt.decode raises
Events(env) == IF Verifies(env) THEN Claimed(env) ELSE {}

\* service_key of a tracked record: "vendor::service_id"
ServiceKeys == {[vendor |-> "v", service_id |-> "A"],
                [vendor |-> "v", service_id |-> "B"]}
CustomerKeys == {None, "c1"}

\* get_triggered_limits: legacy "vendor::id" service_key of an event
\* the flat keys "vendor::service_id"
FlatKeys == {"v::A", "v::B"}

\* service_key.split("::", 1) of a flat key
Split(key) ==
    CASE key = "v::A" -> [vendor |-> "v", service_id |-> "A"]
      [] key = "v::B" -> [vendor |-> "v", service_id |-> "B"]

LegacyVendor(e) == IF e.service_key = None THEN None ELSE Split(e.service_key).vendor
LegacyServiceId(e) == IF e.service_key = None THEN None ELSE Split(e.service_key).service_id

\* get_triggered_limits: matches_service
MatchesService(e, service_id, service_vendor) ==
    IF service_id # None \/ service_vendor # None
    THEN \/ /\ service_id # None
            /\ (e.service_id = service_id \/ LegacyServiceId(e) = service_id)
         \/ /\ service_vendor # None
            /\ (e.vendor = service_vendor \/ LegacyVendor(e) = service_vendor)
    ELSE TRUE

\* get_triggered_limits: matches_client
MatchesClient(e, client_customer_key) ==
    IF client_customer_key # None
    THEN e.client_customer_key = client_customer_key
    ELSE TRUE

\* ConfigManager.get_triggered_limits on the payload stored in the INI file
get_triggered_limits(payload, service_id, service_vendor, client_customer_key) ==
    {e \in Events(payload) :
        /\ MatchesService(e, service_id, service_vendor)
        /\ MatchesClient(e, client_customer_key)}

\* Delivery._check_triggered_limits: the limits that make enqueue raise
MatchingLimits(payload, service_key, client_customer_key) ==
    {l \in get_triggered_limits(payload, service_key.service_id, service_key.vendor,
                                client_customer_key) :
        l.api_key_id = ApiKey}

\* LimitsManager.check_triggered_limits on the stored payload; service_key
\* is the flat "vendor::service_id" key of the query
check_triggered_limits(payload, api_key_id, service_key, client_customer_key) ==
    {e \in Events(payload) :
        /\ e.api_key_id = api_key_id
        /\ service_key # None => e.service_key = service_key
        /\ client_customer_key # None => e.client_customer_key = client_customer_key}

\* write_triggered_limits: json.dumps(data or {})
WrittenPayload(data) == IF data = None THEN "{}" ELSE data

\* ============================================================== queue base
\* QueueDelivery and Delivery.enqueue (delivery/base.py).  The subclass hooks
\* _enqueue and get_batch are those of the in-memory strategy.

\* _enqueue of the in-memory strategy: bounded FIFO, a full queue drops the
\* new record
QEnqueued(id) == IF QueueFull THEN queue ELSE Append(queue, id)

\* Delivery.enqueue: the order of `_enqueue` and `_check_triggered_limits`;
\* the queue that a call which raises UsageLimitExceeded leaves behind
QueueAfterRaise(id) == QEnqueued(id)

\* faulty variant: the pre-check decides on the envelope kept in memory
\* from the latest response
PreCheckPayloadInMemory == lastResp

\* _check_triggered_limits builds a new ConfigManager on the INI path and
\* get_triggered_limits re-reads the file: the payload now on disk
PreCheckPayload == ini_payload

\* the latest track call had this scope and raised UsageLimitExceeded
BlockedCall(sk, ck) ==
    /\ trackResult = "raised"
    /\ tracked.service_key = sk
    /\ tracked.client_customer_key = ck

\* another Tracker or process on the same file stores an envelope
QOtherWriter ==
    /\ strategy = "queue"
    /\ \E env \in EnvelopeNames \cup {None} : ini_payload' = WrittenPayload(env)
    /\ UNCHANGED << strategy, queue, rows, nextId, batch, pc, site, attempt, stopFlag,
                    stopPc, stops, closed, total_sent, total_failed, postCount, acked,
                    failedIds, now, lastResp, trackResult, tracked, crashes >>
    /\ UNCHANGED << ghostVars, extVars >>

\* Tracker.track -> Delivery.enqueue
QTrack ==
    /\ strategy = "queue"
    /\ nextId <= MaxRecords
    /\ nextId' = nextId + 1
    /\ \E sk \in ServiceKeys, ck \in CustomerKeys :
         /\ tracked' = [service_key |-> sk, client_customer_key |-> ck,
                         blocked_before |-> BlockedCall(sk, ck)]
         /\ total_failed' = IF QueueFull THEN total_failed + 1 ELSE total_failed
         /\ failedIds' = IF QueueFull THEN failedIds \cup {nextId} ELSE failedIds
         /\ IF MatchingLimits(PreCheckPayload, sk, ck) # {}
            THEN /\ queue' = QueueAfterRaise(nextId)
                 /\ trackResult' = "raised"
            ELSE /\ queue' = QEnqueued(nextId)
                 /\ trackResult' = IF QueueFull THEN "dropped" ELSE "queued"
    /\ UNCHANGED ghostVars /\ UNCHANGED << strategy, batch, pc, site, attempt, stopFlag, stopPc, stops,
                    closed, total_sent, postCount, acked, ini_payload, lastResp >>
    /\ UNCHANGED dbVars
    /\ UNCHANGED extVars

\* _run: `while not self._stop.is_set()`, then the non-blocking drain loop
QLoopTest ==
    /\ strategy = "queue"
    /\ pc = "loop"
    /\ pc' = IF stopFlag THEN "drain" ELSE "get"
    /\ UNCHANGED ghostVars /\ UNCHANGED << strategy, queue, nextId, batch, site, attempt, stopFlag, stopPc,
                    stops, closed, total_sent, total_failed, postCount, acked,
                    failedIds, trackResult >>
    /\ UNCHANGED dbVars /\ UNCHANGED iniVars
    /\ UNCHANGED extVars

\* get_batch of the in-memory strategy: up to max_batch_size queued items
QBatch == SubSeq(queue, 1, Min(max_batch_size, Len(queue)))
QRest == SubSeq(queue, Len(QBatch) + 1, Len(queue))

\* _run: batch = self.get_batch(self.max_batch_size, block=True)
QGetBatch ==
    /\ strategy = "queue"
    /\ pc = "get"
    /\ IF queue = << >>
       THEN pc' = "loop" /\ UNCHANGED << queue, batch, site, attempt >>
       ELSE /\ batch' = QBatch
            /\ queue' = QRest
            /\ pc' = "post"
            /\ site' = "loop"
            /\ attempt' = 0
    /\ UNCHANGED ghostVars /\ UNCHANGED << strategy, nextId, stopFlag, stopPc, stops, closed, total_sent,
                    total_failed, postCount, acked, failedIds, trackResult >>
    /\ UNCHANGED dbVars /\ UNCHANGED iniVars
    /\ UNCHANGED extVars

\* _run: batch = self.get_batch(self.max_batch_size, block=False); an empty
\* batch ends the thread with self._client.close()
QDrain ==
    /\ strategy = "queue"
    /\ pc = "drain"
    /\ IF queue = << >>
       THEN pc' = "done" /\ UNCHANGED << queue, batch, site, attempt >>
       ELSE /\ batch' = QBatch
            /\ queue' = QRest
            /\ pc' = "post"
            /\ site' = "drain"
            /\ attempt' = 0
    /\ UNCHANGED ghostVars /\ UNCHANGED << strategy, nextId, stopFlag, stopPc, stops, closed, total_sent,
                    total_failed, postCount, acked, failedIds, trackResult >>
    /\ UNCHANGED dbVars /\ UNCHANGED iniVars
    /\ UNCHANGED extVars

\* _process_batch: one attempt of _post_with_retry; when it gives up every
\* item of the batch is counted as failed (reschedule is a no-op)
QPost ==
    /\ strategy = "queue"
    /\ pc = "post"
    /\ postCount' = CountPost(batch)
    /\ \E outcome \in Outcomes :
         /\ IF outcome = "2xx"
            THEN /\ \E env \in EnvelopeNames \cup {None} : lastResp' = env
                 /\ pc' = "refresh"
                 /\ attempt' = 0
                 /\ UNCHANGED << batch, total_failed, failedIds >>
            ELSE IF Retryable(outcome) /\ attempt + 1 < max_attempts
            THEN /\ attempt' = attempt + 1
                 /\ UNCHANGED << pc, batch, total_failed, failedIds, lastResp >>
            ELSE /\ attempt' = 0
                 /\ total_failed' = total_failed + Len(batch)
                 /\ failedIds' = failedIds \cup SeqToSet(batch)
                 /\ batch' = << >>
                 /\ pc' = site
                 /\ UNCHANGED lastResp
         /\ retrying' = RetryPending(outcome, pc')
    /\ UNCHANGED << cost_events, shipsAfterStop, atStop >>
    /\ UNCHANGED << strategy, queue, nextId, site, stopFlag, stopPc, stops, closed,
                    total_sent, acked, trackResult, tracked, ini_payload >>
    /\ UNCHANGED dbVars
    /\ UNCHANGED extVars

\* _process_batch after a 2xx: which envelope ends up in the INI file.
\* _refresh_triggered_limits GETs /triggered-limits and writes that answer
\* (`got`); the POST response (`posted`) is not read.  A failed GET is logged
\* and leaves the file as it is.
PayloadAfterDelivery(posted, got, stored) ==
    IF got = "failed" THEN stored ELSE WrittenPayload(got)

\* _process_batch: _refresh_triggered_limits: the GET of /triggered-limits
\* answers, or the request, the decoding or the write of the INI file fails
QRefresh ==
    /\ strategy = "queue"
    /\ pc = "refresh"
    /\ \E got \in EnvelopeNames \cup {None, "failed"} :
         /\ ini_payload' = PayloadAfterDelivery(lastResp, got, ini_payload)
         /\ pc' = IF got = "failed" THEN "unrefreshed" ELSE "refreshed"
    /\ UNCHANGED ghostVars /\ UNCHANGED << strategy, queue, nextId, batch, site, attempt, stopFlag,
                    stopPc, stops, closed, total_sent, total_failed, postCount, acked,
                    failedIds, trackResult, tracked, lastResp >>
    /\ UNCHANGED dbVars
    /\ UNCHANGED extVars

\* faulty variant: without the inner try a failed refresh reaches the outer
\* except
DeliveredIfRefreshed(p) == p = "refreshed"

\* _process_batch: the else branch runs when the outer try raised nothing;
\* the inner except logs a failed refresh, so nothing is raised either way
Delivered(p) == p \in {"refreshed", "unrefreshed"}

\* _process_batch: else: acknowledge and count the batch; except: count each
\* item as failed (reschedule does nothing)
QAck ==
    /\ strategy = "queue"
    /\ pc \in {"refreshed", "unrefreshed"}
    /\ IF Delivered(pc)
       THEN /\ total_sent' = total_sent + Len(batch)
            /\ acked' = acked \cup SeqToSet(batch)
            /\ UNCHANGED << total_failed, failedIds >>
       ELSE /\ total_failed' = total_failed + Len(batch)
            /\ failedIds' = failedIds \cup SeqToSet(batch)
            /\ UNCHANGED << total_sent, acked >>
    /\ batch' = << >>
    /\ pc' = site
    /\ UNCHANGED ghostVars /\ UNCHANGED << strategy, queue, nextId, site, attempt, stopFlag, stopPc, stops,
                    closed, postCount, trackResult >>
    /\ UNCHANGED dbVars /\ UNCHANGED iniVars
    /\ UNCHANGED extVars

\* stop(): self._stop.set(), then self._thread.join()
QStop ==
    /\ strategy = "queue"
    /\ stopPc = "idle"
    /\ stops < MaxStops
    /\ stopFlag' = TRUE
    /\ stopPc' = "joining"
    /\ UNCHANGED ghostVars /\ UNCHANGED << strategy, queue, nextId, batch, pc, site, attempt, stops,
                    closed, total_sent, total_failed, postCount, acked, failedIds,
                    trackResult >>
    /\ UNCHANGED dbVars /\ UNCHANGED iniVars
    /\ UNCHANGED extVars

\* stop(): join() has returned; super().stop() does nothing
QStopReturn ==
    /\ strategy = "queue"
    /\ stopPc = "joining"
    /\ WorkerEnded
    /\ stopPc' = "idle"
    /\ stops' = stops + 1
    /\ UNCHANGED ghostVars /\ UNCHANGED << strategy, queue, nextId, batch, pc, site, attempt, stopFlag,
                    closed, total_sent, total_failed, postCount, acked, failedIds,
                    trackResult >>
    /\ UNCHANGED dbVars /\ UNCHANGED iniVars
    /\ UNCHANGED extVars

\* the INI file may already hold an envelope when the delivery is created
InitQueue ==
    /\ strategy = "queue"
    /\ pc = "loop"
    /\ queue = << >>
    /\ rows = [i \in Ids |-> NoRow]
    /\ nextId = 1
    /\ batch = << >>
    /\ site = "loop"
    /\ attempt = 0
    /\ stopFlag = FALSE
    /\ stopPc = "idle"
    /\ stops = 0
    /\ closed = FALSE
    /\ total_sent = 0
    /\ total_failed = 0
    /\ postCount = [i \in Ids |-> 0]
    /\ acked = {}
    /\ failedIds = {}
    /\ now = 0
    /\ ini_payload \in EnvelopeNames \cup {None}
    /\ lastResp = None
    /\ trackResult = "none"
    /\ tracked = None
    /\ crashes = 0
    /\ cost_events = "none"
    /\ shipsAfterStop = 0
    /\ atStop = {}
    /\ retrying = "none"
    /\ first_ts = NoFirstTs
    /\ FileIdle /\ StreamIdle /\ GlobalIdle /\ SharedIdle /\ RaceIdle

NextQueue ==
    \/ QTrack
    \/ QLoopTest
    \/ QGetBatch
    \/ QDrain
    \/ QPost
    \/ QRefresh
    \/ QAck
    \/ QOtherWriter
    \/ QStop
    \/ QStopReturn

SpecQueue == InitQueue /\ [][NextQueue]_vars


\* =============================================================== resilient
\* ResilientDelivery (delivery.py).  Every payload handed to deliver() holds
\* one usage record; the stop sentinel {} is the queue item 0.

Sentinel == 0

\* _run: payload["usage_records"].extend(p.get("usage_records", []))
UsageRecords(items) == SelectSeq(items, LAMBDA x : x # Sentinel)

\* deliver(): put_nowait, a full queue drops the payload
RDeliver ==
    /\ strategy = "resilient"
    /\ nextId <= MaxRecords
    /\ nextId' = nextId + 1
    /\ IF QueueFull
       THEN queue' = queue /\ trackResult' = "dropped"
       ELSE queue' = Append(queue, nextId) /\ trackResult' = "queued"
    /\ UNCHANGED ghostVars /\ UNCHANGED << strategy, batch, pc, site, attempt, stopFlag, stopPc, stops,
                    closed, total_sent, total_failed, postCount, acked, failedIds >>
    /\ UNCHANGED dbVars /\ UNCHANGED iniVars
    /\ UNCHANGED extVars

\* self._thread is None or not self._thread.is_alive()
NoLiveThread == pc \in {"nothread", "ended"}

\* start(): clear the stop flag and start a worker unless one is alive
RStart ==
    /\ strategy = "resilient"
    /\ stopPc = "idle"
    /\ NoLiveThread
    /\ stopFlag' = FALSE
    /\ pc' = "loop"
    /\ UNCHANGED ghostVars /\ UNCHANGED << strategy, queue, nextId, batch, site, attempt, stopPc, stops,
                    closed, total_sent, total_failed, postCount, acked, failedIds,
                    trackResult >>
    /\ UNCHANGED dbVars /\ UNCHANGED iniVars
    /\ UNCHANGED extVars

\* faulty variant: stop() without the test for a missing thread
StopNeverNoop == FALSE

\* stop(): `if self._thread is None: return`
StopIsNoop == pc = "nothread"

\* stop(): nothing to do without a thread; else set the flag and go on to
\* put the sentinel
RStop ==
    /\ strategy = "resilient"
    /\ stopPc = "idle"
    /\ stops < MaxStops
    /\ IF StopIsNoop
       THEN stops' = stops + 1 /\ UNCHANGED << stopFlag, stopPc, atStop >>
       ELSE /\ stopFlag' = TRUE /\ stopPc' = "putting" /\ UNCHANGED stops
            /\ atStop' = SeqToSet(UsageRecords(queue \o batch))
    /\ UNCHANGED << cost_events, shipsAfterStop, retrying >>
    /\ UNCHANGED << strategy, queue, nextId, batch, pc, site, attempt, closed,
                    total_sent, total_failed, postCount, acked, failedIds,
                    trackResult >>
    /\ UNCHANGED dbVars /\ UNCHANGED iniVars
    /\ UNCHANGED extVars

\* stop(): self._queue.put({}) blocks while the queue is full
RStopPut ==
    /\ strategy = "resilient"
    /\ stopPc = "putting"
    /\ ~QueueFull
    /\ queue' = Append(queue, Sentinel)
    /\ stopPc' = "joining"
    /\ UNCHANGED ghostVars /\ UNCHANGED << strategy, nextId, batch, pc, site, attempt, stopFlag, stops,
                    closed, total_sent, total_failed, postCount, acked, failedIds,
                    trackResult >>
    /\ UNCHANGED dbVars /\ UNCHANGED iniVars
    /\ UNCHANGED extVars

\* stop(): self._thread.join() has returned; self._thread = None
RStopReturn ==
    /\ strategy = "resilient"
    /\ stopPc = "joining"
    /\ pc = "ended"
    /\ pc' = "nothread"
    /\ stopPc' = "idle"
    /\ stops' = stops + 1
    /\ UNCHANGED ghostVars /\ UNCHANGED << strategy, queue, nextId, batch, site, attempt, stopFlag, closed,
                    total_sent, total_failed, postCount, acked, failedIds,
                    trackResult >>
    /\ UNCHANGED dbVars /\ UNCHANGED iniVars
    /\ UNCHANGED extVars

\* _run: `while not self._stop.is_set()`
RLoopTest ==
    /\ strategy = "resilient"
    /\ pc = "loop"
    /\ pc' = IF stopFlag THEN "ended" ELSE "wait"
    /\ UNCHANGED ghostVars /\ UNCHANGED << strategy, queue, nextId, batch, site, attempt, stopFlag, stopPc,
                    stops, closed, total_sent, total_failed, postCount, acked,
                    failedIds, trackResult >>
    /\ UNCHANGED dbVars /\ UNCHANGED iniVars
    /\ UNCHANGED extVars

\* _run: item = self._queue.get()
RGet ==
    /\ strategy = "resilient"
    /\ pc = "wait"
    /\ queue # << >>
    /\ batch' = << Head(queue) >>
    /\ queue' = Tail(queue)
    /\ pc' = "got"
    /\ UNCHANGED ghostVars /\ UNCHANGED << strategy, nextId, site, attempt, stopFlag, stopPc, stops, closed,
                    total_sent, total_failed, postCount, acked, failedIds,
                    trackResult >>
    /\ UNCHANGED dbVars /\ UNCHANGED iniVars
    /\ UNCHANGED extVars

\* _run: with the stop flag set the item just taken is dropped and the loop
\* ends; else everything queued joins the batch
RCollect ==
    /\ strategy = "resilient"
    /\ pc = "got"
    /\ IF stopFlag
       THEN batch' = << >> /\ pc' = "ended" /\ UNCHANGED << queue, attempt >>
       ELSE batch' = batch \o queue /\ queue' = << >> /\ pc' = "send" /\ attempt' = 0
    /\ UNCHANGED ghostVars /\ UNCHANGED << strategy, nextId, site, stopFlag, stopPc, stops, closed,
                    total_sent, total_failed, postCount, acked, failedIds,
                    trackResult >>
    /\ UNCHANGED dbVars /\ UNCHANGED iniVars
    /\ UNCHANGED extVars

\* _send_with_retry / _update_triggered_limits: the payload of the INI file
\* after a 2xx whose body carries triggered_limits `posted`; a failed write
\* is swallowed
RPayloadAfterDelivery(posted, stored, writable) ==
    IF posted # None /\ writable THEN posted ELSE stored

\* _send_with_retry: one attempt; one batch counts once in total_sent or
\* total_failed
RSend ==
    /\ strategy = "resilient"
    /\ pc = "send"
    /\ postCount' = CountPost(UsageRecords(batch))
    /\ \E outcome \in Outcomes :
         /\ IF outcome = "2xx"
            THEN /\ \E env \in EnvelopeNames \cup {None}, writable \in BOOLEAN :
                      /\ lastResp' = env
                      /\ ini_payload' = RPayloadAfterDelivery(env, ini_payload, writable)
                 /\ total_sent' = total_sent + 1
                 /\ acked' = acked \cup SeqToSet(UsageRecords(batch))
                 /\ batch' = << >>
                 /\ attempt' = 0
                 /\ pc' = "loop"
                 /\ UNCHANGED << total_failed, failedIds >>
            ELSE IF attempt + 1 < max_retries
            THEN /\ attempt' = attempt + 1
                 /\ UNCHANGED << pc, batch, total_sent, total_failed, acked, failedIds,
                                 ini_payload, lastResp >>
            ELSE /\ total_failed' = total_failed + 1
                 /\ failedIds' = failedIds \cup SeqToSet(UsageRecords(batch))
                 /\ batch' = << >>
                 /\ attempt' = 0
                 /\ pc' = "loop"
                 /\ UNCHANGED << total_sent, acked, ini_payload, lastResp >>
         /\ retrying' = RetryPending(outcome, pc')
    /\ UNCHANGED << cost_events, shipsAfterStop, atStop >>
    /\ UNCHANGED << strategy, queue, nextId, site, stopFlag, stopPc, stops, closed,
                    trackResult, tracked >>
    /\ UNCHANGED dbVars
    /\ UNCHANGED extVars

InitResilient == strategy = "resilient" /\ pc = "nothread" /\ InitCommon /\ FileIdle /\ StreamIdle /\ GlobalIdle /\ SharedIdle /\ RaceIdle

NextResilient ==
    \/ RDeliver
    \/ RStart
    \/ RStop
    \/ RStopPut
    \/ RStopReturn
    \/ RLoopTest
    \/ RGet
    \/ RCollect
    \/ RSend

SpecResilient == InitResilient /\ [][NextResilient]_vars

\* ================================================================ all
\* create_delivery / get_global_delivery pick one of the deliveries

Init ==
    \/ InitMem
    \/ InitPersistent
    \/ InitLegacy
    \/ InitImmediate
    \/ InitQueue
    \/ InitResilient

Next ==
    \/ NextMem
    \/ NextPersistent
    \/ NextLegacy
    \/ NextImmediate
    \/ NextQueue
    \/ NextResilient

Spec == Init /\ [][Next]_vars


\* =================================================================== INI file
\* IniManager (ini_manager.py), the queries of config_manager.py and
\* limits_manager.py, and the writers that open the file themselves
\* (client.py track_usage, delivery.py _update_triggered_limits).  The file
\* holds one option of [tracker] and the payload of [triggered_limits].

\* what the delivery state is while only the INI file is used
deliveryIdle == << strategy, queue, rows, nextId, batch, pc, site, attempt, stopFlag,
                   stopPc, stops, closed, total_sent, total_failed, postCount, acked,
                   failedIds, now, ini_payload, lastResp, trackResult, tracked,
                   crashes, cost_events, shipsAfterStop, atStop, retrying, workers,
                   callers, first_ts >>

\* option values handed to set_option
OptionValues == {"a", " b"}

\* envelopes handed to the writers of [triggered_limits]
WrittenEnvelopes == {None, "EnvA", "EnvForged"}

\* what GET /triggered-limits answers to a query that refetches
FetchedEnvelopes == {"failed", None, "EnvA"}

\* configparser reads `key = value` lines: the value comes back stripped
Strip(v) == IF v = " b" THEN "b" ELSE v

\* safe_read_config under file_lock: a file caught half written parses as
\* an empty configuration
Parsed(f) == IF f.torn THEN EmptyFile ELSE f

\* read_triggered_limits: json.loads of the payload, {} without the section
ReadTriggeredLimits(cfg) == IF cfg.limits = None THEN "{}" ELSE cfg.limits

\* faulty variant: an existing section is kept and only completed
SetTriggeredLimitsMerged(cfg, data) ==
    IF cfg.limits = None THEN [cfg EXCEPT !.limits = WrittenPayload(data)] ELSE cfg

\* write_triggered_limits: remove_section, add_section, payload = json.dumps
SetTriggeredLimits(cfg, data) == [cfg EXCEPT !.limits = WrittenPayload(data)]

\* IniManager.set_option: read, set and atomic_write under one file_lock
SetOption ==
    /\ strategy = "ini"
    /\ \E v \in OptionValues :
         /\ file' = [Parsed(file) EXCEPT !.tracker = Strip(v)]
         /\ committed' = [committed EXCEPT !.tracker = v]
    /\ lastOp' = "set_option"
    /\ UNCHANGED << config, raw, result >>
    /\ UNCHANGED << deliveryIdle, streamVars, globalVars >>

\* IniManager.get_option: a fresh read of the file
GetOption ==
    /\ strategy = "ini"
    /\ result' = [NoResult EXCEPT !.value = Parsed(file).tracker]
    /\ lastOp' = "get_option"
    /\ UNCHANGED << file, config, raw, committed >>
    /\ UNCHANGED << deliveryIdle, streamVars, globalVars >>

\* IniManager.__init__ (a process start): self._config = safe_read_config
IniStart ==
    /\ strategy = "ini"
    /\ config' = Parsed(file)
    /\ lastOp' = "init"
    /\ UNCHANGED << file, raw, result, committed >>
    /\ UNCHANGED << deliveryIdle, streamVars, globalVars >>

\* IniManager.read_triggered_limits: re-reads the file into self._config
IniReadLimits ==
    /\ strategy = "ini"
    /\ config' = Parsed(file)
    /\ result' = [NoResult EXCEPT !.value = ReadTriggeredLimits(config')]
    /\ lastOp' = "read_limits"
    /\ UNCHANGED << file, raw, committed >>
    /\ UNCHANGED << deliveryIdle, streamVars, globalVars >>

\* IniManager.write_triggered_limits: replaces the section in self._config
\* and _write()s the whole of self._config over the file
IniWriteLimits ==
    /\ strategy = "ini"
    /\ \E data \in WrittenEnvelopes :
         /\ config' = SetTriggeredLimits(config, data)
         /\ committed' = [committed EXCEPT !.limits = data]
    /\ file' = config'
    /\ lastOp' = "write_limits"
    /\ UNCHANGED << raw, result >>
    /\ UNCHANGED << deliveryIdle, streamVars, globalVars >>

\* track_usage / _update_triggered_limits: cp.read(self.ini_path) and the
\* new payload, in a parser of its own
RawRead ==
    /\ strategy = "ini"
    /\ raw.pc = "idle"
    /\ \E data \in WrittenEnvelopes :
         raw' = [pc |-> "open", cp |-> [Parsed(file) EXCEPT !.limits = WrittenPayload(data)]]
    /\ lastOp' = "raw_read"
    /\ UNCHANGED << file, config, result, committed >>
    /\ UNCHANGED << deliveryIdle, streamVars, globalVars >>

\* open(self.ini_path, "w"): the file is truncated in place
RawOpen ==
    /\ strategy = "ini"
    /\ raw.pc = "open"
    /\ file' = [EmptyFile EXCEPT !.torn = TRUE]
    /\ raw' = [raw EXCEPT !.pc = "write"]
    /\ lastOp' = "raw_open"
    /\ UNCHANGED << config, result, committed >>
    /\ UNCHANGED << deliveryIdle, streamVars, globalVars >>

\* cp.write(f) and the close of the file
RawWrite ==
    /\ strategy = "ini"
    /\ raw.pc = "write"
    /\ file' = raw.cp
    /\ raw' = [raw EXCEPT !.pc = "idle"]
    /\ committed' = [committed EXCEPT !.limits = raw.cp.limits]
    /\ lastOp' = "raw_write"
    /\ UNCHANGED << config, result >>
    /\ UNCHANGED << deliveryIdle, streamVars, globalVars >>

\* CostManagerConfig.get_triggered_limits: what the file holds after the
\* re-read and, when no token or public key is stored, the refetch from the
\* API (`fetched`), which is written to the file unless it failed
RefetchedLimits(stored, fetched) ==
    IF stored \in {None, "{}"} /\ fetched # "failed"
    THEN WrittenPayload(fetched)
    ELSE stored

\* CostManagerConfig.get_triggered_limits(service_id, vendor, customer key)
ConfigQuery ==
    /\ strategy = "ini"
    /\ \E fetched \in FetchedEnvelopes, sk \in ServiceKeys, ck \in CustomerKeys :
         /\ file' = [Parsed(file) EXCEPT !.limits = RefetchedLimits(@, fetched)]
         /\ committed' = IF file'.limits = Parsed(file).limits
                         THEN committed
                         ELSE [committed EXCEPT !.limits = fetched]
         /\ result' = [NoResult EXCEPT !.limits =
                          get_triggered_limits(file'.limits, sk.service_id, sk.vendor, ck)]
    /\ lastOp' = "config_query"
    /\ UNCHANGED << config, raw >>
    /\ UNCHANGED << deliveryIdle, streamVars, globalVars >>

\* LimitsManager.check_triggered_limits(api_key_id, service_key, customer key)
LimitsCheck ==
    /\ strategy = "ini"
    /\ config' = Parsed(file)
    /\ \E sk \in FlatKeys \cup {None}, ck \in CustomerKeys :
         result' = [NoResult EXCEPT !.limits =
                       check_triggered_limits(ReadTriggeredLimits(config'), ApiKey, sk, ck)]
    /\ lastOp' = "limits_check"
    /\ UNCHANGED << file, raw, committed >>
    /\ UNCHANGED << deliveryIdle, streamVars, globalVars >>

InitIni ==
    /\ strategy = "ini"
    /\ pc = "idle"
    /\ InitCommon /\ FileIdle /\ StreamIdle /\ GlobalIdle /\ SharedIdle /\ RaceIdle

NextIni ==
    \/ SetOption
    \/ GetOption
    \/ IniStart
    \/ IniReadLimits
    \/ IniWriteLimits
    \/ RawRead
    \/ RawOpen
    \/ RawWrite
    \/ ConfigQuery
    \/ LimitsCheck

SpecIni == InitIni /\ [][NextIni]_vars

\* ==================================================================== stream
\* Tracker.track_llm_stream_usage (tracker.py): a generator around the
\* stream of an LLM SDK; pc is the state of the generator

\* events of a stream: without usage, with an empty usage dict, with usage
StreamEvents == {"plain", "empty", "usage"}

\* the streams handed to the wrapper
Streams == UNION {[1..n -> StreamEvents] : n \in 0..MaxLen}

\* `isinstance(usage, dict) and usage` of the usage extracted from the chunk
HasUsage(chunk) == chunk = "usage"

\* faulty variant: the flag is not consulted
ShouldTrackAlways(sent, chunk) == HasUsage(chunk)

\* `if not usage_sent:` ... `if isinstance(usage, dict) and usage:`
ShouldTrack(sent, chunk) == ~sent /\ HasUsage(chunk)

\* one next() on the generator: the loop body for the next chunk.  track()
\* either returns, and the chunk is yielded, or raises (UsageLimitExceeded,
\* a failed immediate delivery), and the exception ends the generator
\* before the chunk is yielded.
SNextChunk ==
    /\ strategy = "stream"
    /\ pc = "iter"
    /\ Len(yielded) < Len(stream)
    /\ LET chunk == stream[Len(yielded) + 1] IN
         IF ShouldTrack(usage_sent, chunk)
         THEN /\ tracks' = tracks + 1
              /\ \/ /\ trackResult' = "queued"
                    /\ usage_sent' = TRUE
                    /\ yielded' = Append(yielded, chunk)
                    /\ pc' = pc
                 \/ /\ trackResult' = "raised"
                    /\ pc' = "raised"
                    /\ UNCHANGED << usage_sent, yielded >>
         ELSE /\ yielded' = Append(yielded, chunk)
              /\ UNCHANGED << tracks, usage_sent, pc, trackResult >>
    /\ UNCHANGED << strategy, queue, rows, nextId, batch, site, attempt, stopFlag,
                    stopPc, stops, closed, total_sent, total_failed, postCount, acked,
                    failedIds, now, ini_payload, lastResp, tracked, crashes >>
    /\ UNCHANGED << ghostVars, stream, fileVars, globalVars, sharedVars, raceVars, first_ts >>

\* next() after the last chunk: the for loop ends, StopIteration
SExhaust ==
    /\ strategy = "stream"
    /\ pc = "iter"
    /\ Len(yielded) = Len(stream)
    /\ pc' = "done"
    /\ UNCHANGED << strategy, queue, rows, nextId, batch, site, attempt, stopFlag,
                    stopPc, stops, closed, total_sent, total_failed, postCount, acked,
                    failedIds, now, ini_payload, lastResp, tracked, crashes, trackResult >>
    /\ UNCHANGED << ghostVars, fileVars, streamVars, globalVars, sharedVars, raceVars, first_ts >>

InitStream ==
    /\ strategy = "stream"
    /\ pc = "iter"
    /\ InitCommon /\ FileIdle /\ GlobalIdle /\ SharedIdle /\ RaceIdle
    /\ stream \in Streams
    /\ yielded = << >>
    /\ usage_sent = FALSE
    /\ tracks = 0

NextStream ==
    \/ SNextChunk
    \/ SExhaust

SpecStream == InitStream /\ [][NextStream]_vars

\* =========================================================== global delivery
\* get_global_delivery (delivery.py, delivery/mem_queue.py): the module
\* variable _global_delivery, read and assigned without a lock.  Instances
\* are numbered in the order of their construction; each starts one worker.

\* a thread calls get_global_delivery: `if _global_delivery is None`
GCall(t) ==
    /\ strategy = "global"
    /\ caller[t].pc = "idle"
    /\ caller[t].calls < MaxCalls
    /\ caller' = [caller EXCEPT ![t].pc = IF global_delivery = 0 THEN "create" ELSE "return",
                                ![t].calls = @ + 1]
    /\ UNCHANGED << global_delivery, created >>
    /\ UNCHANGED << deliveryIdle, fileVars, streamVars >>

\* `_global_delivery = ResilientDelivery(...)` and its start()
GCreate(t) ==
    /\ strategy = "global"
    /\ caller[t].pc = "create"
    /\ created' = created + 1
    /\ global_delivery' = created + 1
    /\ caller' = [caller EXCEPT ![t].pc = "return"]
    /\ UNCHANGED << deliveryIdle, fileVars, streamVars >>

\* `return _global_delivery`
GReturn(t) ==
    /\ strategy = "global"
    /\ caller[t].pc = "return"
    /\ caller' = [caller EXCEPT ![t].pc = "idle", ![t].got = @ \cup {global_delivery}]
    /\ UNCHANGED << global_delivery, created >>
    /\ UNCHANGED << deliveryIdle, fileVars, streamVars >>

InitGlobal ==
    /\ strategy = "global"
    /\ pc = "idle"
    /\ InitCommon /\ FileIdle /\ StreamIdle /\ GlobalIdle /\ SharedIdle /\ RaceIdle

NextGlobal ==
    \/ \E t \in Threads : GCall(t)
    \/ \E t \in Threads : GCreate(t)
    \/ \E t \in Threads : GReturn(t)

SpecGlobal == InitGlobal /\ [][NextGlobal]_vars

\* ========================================================= shared database
\* Two processes each create a PersistentDelivery (delivery/persistent.py)
\* on the same db_path (the default path is the same for every process of a
\* user).  self._lock is a threading.Lock of one process; between processes
\* only SQLite's transactions order the statements.  The sqlite3 module
\* opens a transaction at the first UPDATE/INSERT/DELETE, not at a SELECT,
\* so the SELECT of _get_batch and its UPDATE are two transactions.

\* the ids of fetched rows
RowIds(fetched) == {fetched[k].id : k \in 1..Len(fetched)}

\* cur.fetchall(): the selected rows as they are at the SELECT
Fetched(ids) == [k \in 1..Len(ids) |-> [id |-> ids[k], retry_count |-> rows[ids[k]].retry_count]]

\* UPDATE ... WHERE id=? changes the rows that exist, whatever their status
Existing(ids) == {i \in ids : rows[i].status # "absent"}

\* enqueue() of either process
SEnqueue ==
    /\ strategy = "shared"
    /\ nextId <= MaxRecords
    /\ nextId' = nextId + 1
    /\ rows' = [rows EXCEPT ![nextId] =
                  [status |-> "queued", retry_count |-> 0, scheduled_at |-> now]]
    /\ trackResult' = "queued"
    /\ UNCHANGED << postCount, acked, workers >>
    /\ UNCHANGED ghostVars /\ UNCHANGED << strategy, batch, pc, attempt, stopFlag, stopPc, stops, closed, now, crashes >>
    /\ UNCHANGED memVars /\ UNCHANGED iniVars
    /\ UNCHANGED << fileVars, streamVars, globalVars, raceVars, first_ts >>

\* _get_batch: the SELECT and fetchall(); nothing due: sleep and poll again
SSelect(p) ==
    /\ strategy = "shared"
    /\ workers[p].pc = "pick"
    /\ SelectBatch(batch_limit) # << >>
    /\ workers' = [workers EXCEPT ![p].pc = "update",
                                  ![p].rows = Fetched(SelectBatch(batch_limit))]
    /\ UNCHANGED << rows, nextId, trackResult, postCount, acked >>
    /\ UNCHANGED ghostVars /\ UNCHANGED << strategy, batch, pc, attempt, stopFlag, stopPc, stops, closed, now, crashes >>
    /\ UNCHANGED memVars /\ UNCHANGED iniVars
    /\ UNCHANGED << fileVars, streamVars, globalVars, raceVars, first_ts >>

\* _get_batch: UPDATE queue SET status='processing' WHERE id=?, commit
SUpdate(p) ==
    /\ strategy = "shared"
    /\ workers[p].pc = "update"
    /\ rows' = [i \in Ids |->
                  IF i \in Existing(RowIds(workers[p].rows))
                  THEN [rows[i] EXCEPT !.status = "processing"]
                  ELSE rows[i]]
    /\ workers' = [workers EXCEPT ![p].pc = "post", ![p].attempt = 0]
    /\ UNCHANGED << nextId, trackResult, postCount, acked >>
    /\ UNCHANGED ghostVars /\ UNCHANGED << strategy, batch, pc, attempt, stopFlag, stopPc, stops, closed, now, crashes >>
    /\ UNCHANGED memVars /\ UNCHANGED iniVars
    /\ UNCHANGED << fileVars, streamVars, globalVars, raceVars, first_ts >>

\* _run_worker: one attempt of the Retrying loop
SPost(p) ==
    /\ strategy = "shared"
    /\ workers[p].pc = "post"
    /\ \E outcome \in Outcomes :
         /\ postCount' = [i \in Ids |-> IF i \in RowIds(workers[p].rows)
                                        THEN postCount[i] + 1 ELSE postCount[i]]
         /\ IF outcome = "2xx"
            THEN /\ workers' = [workers EXCEPT ![p].pc = "ack", ![p].attempt = 0]
                 /\ acked' = acked \cup RowIds(workers[p].rows)
            ELSE /\ workers' = [workers EXCEPT
                                  ![p].attempt = @ + 1,
                                  ![p].pc = IF Retryable(outcome) /\ workers[p].attempt + 1 < max_attempts
                                            THEN "post" ELSE "resched"]
                 /\ acked' = acked
    /\ UNCHANGED << rows, nextId, trackResult >>
    /\ UNCHANGED ghostVars /\ UNCHANGED << strategy, batch, pc, attempt, stopFlag, stopPc, stops, closed, now, crashes >>
    /\ UNCHANGED memVars /\ UNCHANGED iniVars
    /\ UNCHANGED << fileVars, streamVars, globalVars, raceVars, first_ts >>

\* _run_worker, else branch: DELETE FROM queue WHERE id=?
SAck(p) ==
    /\ strategy = "shared"
    /\ workers[p].pc = "ack"
    /\ rows' = DeleteRows(RowIds(workers[p].rows))
    /\ workers' = [workers EXCEPT ![p].pc = "pick", ![p].rows = << >>]
    /\ UNCHANGED << nextId, trackResult, postCount, acked >>
    /\ UNCHANGED ghostVars /\ UNCHANGED << strategy, batch, pc, attempt, stopFlag, stopPc, stops, closed, now, crashes >>
    /\ UNCHANGED memVars /\ UNCHANGED iniVars
    /\ UNCHANGED << fileVars, streamVars, globalVars, raceVars, first_ts >>

\* the retry_count the process fetched with row i
FetchedRetry(p, i) ==
    LET k == CHOOSE k \in 1..Len(workers[p].rows) : workers[p].rows[k].id = i
    IN workers[p].rows[k].retry_count

\* _run_worker, except branch: _reschedule(row["id"], row["retry_count"] + 1)
\* with the retry_count of the fetched row
SReschedule(p) ==
    /\ strategy = "shared"
    /\ workers[p].pc = "resched"
    /\ rows' = [i \in Ids |->
                  IF i \in Existing(RowIds(workers[p].rows))
                  THEN Rescheduled(FetchedRetry(p, i) + 1)
                  ELSE rows[i]]
    /\ workers' = [workers EXCEPT ![p].pc = "pick", ![p].rows = << >>, ![p].attempt = 0]
    /\ UNCHANGED << nextId, trackResult, postCount, acked >>
    /\ UNCHANGED ghostVars /\ UNCHANGED << strategy, batch, pc, attempt, stopFlag, stopPc, stops, closed, now, crashes >>
    /\ UNCHANGED memVars /\ UNCHANGED iniVars
    /\ UNCHANGED << fileVars, streamVars, globalVars, raceVars, first_ts >>

InitShared ==
    /\ strategy = "shared"
    /\ pc = "idle"
    /\ InitCommon /\ FileIdle /\ StreamIdle /\ GlobalIdle /\ SharedIdle /\ RaceIdle

NextShared ==
    \/ SEnqueue
    \/ Tick
    \/ \E p \in Procs : SSelect(p)
    \/ \E p \in Procs : SUpdate(p)
    \/ \E p \in Procs : SPost(p)
    \/ \E p \in Procs : SAck(p)
    \/ \E p \in Procs : SReschedule(p)

SpecShared == InitShared /\ [][NextShared]_vars

\* ================================================================== backoff
\* PersistentDelivery (delivery/persistent.py) created with
\* max_retries = MaxRetryCount, followed over the delays of one row whose
\* batches all fail: _reschedule, the clock, _get_batch.

\* what this run leaves alone
backoffIdle == << strategy, queue, nextId, batch, pc, site, attempt, stopFlag, stopPc,
                  stops, closed, total_sent, total_failed, postCount, acked, failedIds,
                  ini_payload, lastResp, trackResult, tracked, crashes, ghostVars,
                  extVars >>

\* a row was fetched by _get_batch with some retry_count
BFetched ==
    /\ strategy = "backoff"
    /\ rows[1].status = "absent"
    /\ \E r \in 0..(MaxRetryCount - 1) :
         rows' = [rows EXCEPT ![1] = [status |-> "processing", retry_count |-> r,
                                      scheduled_at |-> now]]
    /\ UNCHANGED now
    /\ UNCHANGED backoffIdle

\* _run_worker, except branch: _reschedule(row["id"], row["retry_count"] + 1)
BReschedule ==
    /\ strategy = "backoff"
    /\ \E i \in Ids :
         /\ rows[i].status = "processing"
         /\ rows' = [rows EXCEPT ![i] =
                       RescheduledAt(rows[i].retry_count + 1 >= MaxRetryCount,
                                     rows[i].retry_count + 1)]
    /\ UNCHANGED now
    /\ UNCHANGED backoffIdle

\* time passes
BTick ==
    /\ strategy = "backoff"
    /\ now < MaxWait
    /\ now' = now + 1
    /\ UNCHANGED rows
    /\ UNCHANGED backoffIdle

\* _get_batch: the rows due now become 'processing'
BGetBatch ==
    /\ strategy = "backoff"
    /\ SelectBatch(batch_limit) # << >>
    /\ rows' = [i \in Ids |->
                  IF i \in SeqToSet(SelectBatch(batch_limit))
                  THEN [rows[i] EXCEPT !.status = "processing"]
                  ELSE rows[i]]
    /\ UNCHANGED now
    /\ UNCHANGED backoffIdle

InitBackoff ==
    /\ strategy = "backoff"
    /\ pc = "idle"
    /\ InitCommon /\ FileIdle /\ StreamIdle /\ GlobalIdle /\ SharedIdle /\ RaceIdle

NextBackoff ==
    \/ BFetched
    \/ BReschedule
    \/ BTick
    \/ BGetBatch

SpecBackoff == InitBackoff /\ [][NextBackoff]_vars

\* ================================================================== claims

\* the body of the POST the worker is about to make
PostBody == IF strategy = "resilient" THEN UsageRecords(batch) ELSE batch

\* the worker is at a POST
Posting == pc \in {"send", "post"}

\* ---------------------------------------------------------------------- C1
\* C1: a track call made while the limits cache holds a limit matching the
\* record raises UsageLimitExceeded and leaves the queue as it was (the
\* record is not enqueued, the queue size is unchanged).
C1_LimitBlocksEnqueue ==
    [][ ( /\ strategy = "queue"
          /\ nextId' = nextId + 1
          /\ MatchingLimits(ini_payload, tracked'.service_key,
                            tracked'.client_customer_key) # {} )
        => ( /\ trackResult' = "raised"
             /\ queue' = queue
             /\ Len(queue') = Len(queue) ) ]_vars

\* ---------------------------------------------------------------------- C2
\* C2: at-least-once: a row committed as 'processing' does not stay
\* 'processing' forever, also when the process is killed before the row is
\* acknowledged and then restarted.
C2_NoRowProcessingForever ==
    \A i \in Ids : (rows[i].status = "processing") ~> (rows[i].status # "processing")

\* ---------------------------------------------------------------------- C3
\* C3: once the running process has seen a 2xx for a batch, the rows of the
\* batch are deleted: outside the step between the response and the DELETE,
\* no row of a delivered record is left in any status.
C3_DeliveredRowDeleted ==
    strategy = "persistent" =>
        \A i \in Ids :
            i \in acked =>
                \/ rows[i].status = "absent"
                \/ (pc = "ack" /\ i \in SeqToSet(batch))

\* a two-row batch was delivered and both rows are gone while the worker
\* has moved on
C3_Witness ==
    /\ strategy = "persistent"
    /\ acked = {1, 2}
    /\ pc # "ack"
    /\ \A i \in {1, 2} : rows[i].status = "absent"

\* ---------------------------------------------------------------------- C4
\* C4: no silent loss: by the time the worker thread has ended, every record
\* accepted by enqueue and taken off the queue has been counted in
\* total_sent or in total_failed, also when every POST attempt failed.
C4_AcceptedRecordCounted ==
    (strategy = "mem" /\ WorkerEnded) =>
        \A i \in 1..(nextId - 1) :
            \/ i \in SeqToSet(queue)
            \/ i \in acked
            \/ i \in failedIds

\* ---------------------------------------------------------------------- C5
\* C5 as claimed: no record is POSTed more than max_retries times; a row's
\* retry_count never exceeds max_retries and a row that has reached
\* max_retries is never 'queued'.
C5_AtMostMaxRetriesPosts ==
    strategy = "persistent" =>
        \A i \in Ids :
            /\ postCount[i] <= max_retries
            /\ rows[i].retry_count <= max_retries
            /\ (rows[i].retry_count >= max_retries => rows[i].status # "queued")

\* C5 as amended: no record takes part in more than max_retries failed batch
\* deliveries, each of at most max_attempts POSTs, so it is POSTed at most
\* max_retries * max_attempts times; a row's retry_count never exceeds
\* max_retries and a row that has reached max_retries is 'failed', never
\* 'queued' again.
C5_RetryBound ==
    strategy = "persistent" =>
        \A i \in Ids :
            /\ postCount[i] <= max_retries * max_attempts
            /\ rows[i].retry_count <= max_retries
            /\ (rows[i].retry_count >= max_retries => rows[i].status = "failed")

\* a row has failed after max_retries batches of max_attempts POSTs each
C5_Witness ==
    /\ strategy = "persistent"
    /\ \E i \in Ids :
         /\ rows[i].status = "failed"
         /\ rows[i].retry_count = max_retries
         /\ postCount[i] = max_retries * max_attempts

\* ---------------------------------------------------------------------- C6
\* C6: FIFO within a batch: every POST body lists its records in the order
\* of their enqueues, in every strategy, also after a reschedule.
C6_FifoWithinBatch ==
    Posting =>
        \A k1, k2 \in 1..Len(PostBody) : k1 < k2 => PostBody[k1] < PostBody[k2]

\* a POST body holds two records, the first of them rescheduled before
C6_Witness ==
    /\ strategy = "persistent"
    /\ pc = "post"
    /\ Len(batch) = 2
    /\ rows[batch[1]].retry_count > 0

\* ---------------------------------------------------------------------- C7
\* C7: after a successful delivery whose response carried the envelope E in
\* triggered_limits has been processed, the INI payload is E.
C7_PayloadIsResponseEnvelope ==
    (strategy = "queue" /\ lastResp # None /\ pc # "refresh")
        => ini_payload = lastResp

\* ---------------------------------------------------------------------- C8
\* the delivery as the caller of stop() finds it once a stop() has returned
\* and no start() followed
AfterStop ==
    /\ stops >= 1
    /\ CASE strategy = "resilient" -> pc = "nothread"
         [] strategy = "immediate" -> closed
         [] OTHER -> WorkerEnded /\ stopFlag

\* a step of a stop() call (a kill of the process is not one)
StopStep == crashes' = crashes /\ (stopPc' # stopPc \/ stops' # stops)

\* everything but the position of the caller of stop()
deliveryState ==
    << strategy, queue, rows, nextId, batch, pc, site, attempt, stopFlag, closed,
       total_sent, total_failed, postCount, acked, failedIds, ini_payload,
       lastResp, trackResult, cost_events, shipsAfterStop, atStop, retrying >>

\* C8: idempotent stop: a stop() called after a stop() has returned changes
\* nothing of the delivery (no shipment, no queue change, worker still
\* stopped) and returns without blocking.
C8_StopIdempotent ==
    [][ (AfterStop /\ StopStep)
        => ( /\ UNCHANGED deliveryState
             /\ (stopPc' = "idle" \/ (stopPc' = "joining" /\ WorkerEnded')) ) ]_vars

\* a second stop() has returned on a delivery that had shipped a batch
C8_Witness ==
    /\ strategy = "resilient"
    /\ stops >= 2
    /\ total_sent >= 1
    /\ pc = "nothread"

C10_StopDrains ==
    ( /\ strategy = "persistent"
      /\ stops >= 1
      /\ closed
      /\ \A i \in Ids : rows[i].retry_count = 0 /\ rows[i].status # "failed" )
    => Eligible = {}

\* --------------------------------------------------------------------- C11
\* C11: stop() does not return while a batch is in flight: once stop() has
\* returned the worker thread has ended, no POST is outstanding and no row
\* picked by this instance is still 'processing'; the client and the
\* connection are closed only after the worker's last use of them.
C11_StopWaitsForWorker ==
    strategy \in {"persistent", "legacy", "queue"} =>
        /\ stops >= 1 =>
             /\ WorkerEnded
             /\ ~Posting
             /\ \A i \in SeqToSet(batch) : rows[i].status # "processing"
        /\ closed => WorkerEnded

\* --------------------------------------------------------------------- C12
\* C12 as claimed: once stop() has set the stop flag the in-memory worker
\* makes at most one final shipment before it terminates.
C12_OneFinalShipment ==
    strategy = "mem" => shipsAfterStop <= 1

\* C12 as amended: once stop() has set the stop flag the in-memory worker
\* collects the queued records without blocking and ships them in batches of
\* at most max_batch_size records, in as many shipments as that takes (never
\* more than there are accepted records); it returns normally only under the
\* stop flag, with an empty batch and every collected record shipped.
C12_DrainInBatches ==
    strategy = "mem" =>
        /\ Len(batch) <= max_batch_size
        /\ shipsAfterStop <= nextId - 1
        /\ pc = "done" =>
             /\ stopFlag
             /\ batch = << >>
             /\ \A i \in 1..(nextId - 1) :
                  i \in SeqToSet(queue) \/ i \in acked \/ i \in failedIds

\* the worker has returned after two shipments made under the stop flag
C12_Witness ==
    /\ strategy = "mem"
    /\ pc = "done"
    /\ shipsAfterStop = 2
    /\ acked = {1, 2}

\* --------------------------------------------------------------------- C13
\* C13: ResilientDelivery.stop() waits for the queued items: once stop() has
\* returned, every record that was queued or collected when stop() was
\* called has been POSTed at least once.
C13_StopProcessesQueued ==
    (strategy = "resilient" /\ stops >= 1 /\ stopPc = "idle" /\ pc = "nothread")
        => \A i \in atStop : postCount[i] >= 1

\* --------------------------------------------------------------------- C14
\* the record of the latest immediate enqueue
LastId == nextId - 1

\* C14: an immediate enqueue makes at most 3 POST attempts: k failed attempts
\* (5xx or network) followed by a 2xx, k < 3, are exactly k + 1 POSTs and a
\* normal return; three failed attempts are exactly 3 POSTs and the failure
\* is raised to the caller. (No stop() has closed the client.)
C14_ThreeAttempts ==
    (strategy = "immediate" /\ stops = 0 /\ nextId > 1) =>
        /\ postCount[LastId] <= immediate_attempts
        /\ pc = "post" => postCount[LastId] = attempt /\ attempt < immediate_attempts
        /\ (pc = "idle" /\ trackResult = "returned") =>
               /\ attempt < immediate_attempts
               /\ postCount[LastId] = attempt + 1
               /\ LastId \in acked
        /\ (pc = "idle" /\ trackResult = "RetryError") =>
               /\ attempt = immediate_attempts
               /\ postCount[LastId] = immediate_attempts
               /\ LastId \notin acked

\* an enqueue returned normally on its third POST
C14_Witness ==
    /\ strategy = "immediate"
    /\ stops = 0
    /\ pc = "idle"
    /\ trackResult = "returned"
    /\ attempt = 2
    /\ postCount[LastId] = 3

\* --------------------------------------------------------------------- C15
\* C15: a 4xx response is terminal in every strategy (immediate, in-memory,
\* persistent): the batch that received it is not POSTed again by the
\* Retrying loop; only network failures, timeouts and 5xx are retried.
C15_ClientErrorTerminal ==
    strategy \in {"immediate", "mem", "persistent", "legacy"} =>
        retrying \in {"none", "5xx", "net"}

\* --------------------------------------------------------------------- C16
\* the failed delivery of record i is on record: counted in total_failed, or
\* its row rescheduled or marked failed
FailureRecorded(i) ==
    IF strategy = "persistent"
    THEN rows[i].status \in {"queued", "failed"} /\ rows[i].retry_count >= 1
    ELSE i \in failedIds

\* the worker has let go of record i without a successful delivery
DeliveryFailed(i) ==
    /\ postCount[i] >= 1
    /\ i \notin acked
    /\ WorkerEnded \/ i \notin SeqToSet(batch)

\* C16: in the queue modes track/enqueue raises nothing but
\* UsageLimitExceeded or a local queue I/O error, and a failed delivery is
\* never raised to the caller but recorded: counted in total_failed, or the
\* row rescheduled or marked failed. (Persistent: no process kill.)
C16_FailureRecordedNotRaised ==
    (strategy \in {"mem", "persistent", "queue"} /\ crashes = 0) =>
        /\ trackResult \in {"none", "queued", "dropped", "raised", "ioerror"}
        /\ \A i \in 1..(nextId - 1) : DeliveryFailed(i) => FailureRecorded(i)

\* --------------------------------------------------------------------- C17
\* C17: in immediate mode a failed delivery is never swallowed: when enqueue
\* has ended without a 2xx, track has raised the failure, and track returns
\* the response_id only for a record the server accepted.
C17_FailureRaised ==
    (strategy = "immediate" /\ pc = "idle" /\ nextId > 1) =>
        /\ trackResult \in {"returned", "HTTPStatusError", "RetryError"}
        /\ trackResult = "returned" <=> LastId \in acked

\* a track call whose only POST was answered 4xx has raised
C17_Witness ==
    /\ strategy = "immediate"
    /\ pc = "idle"
    /\ trackResult = "HTTPStatusError"
    /\ postCount[LastId] = 1
    /\ LastId \notin acked

\* --------------------------------------------------------------------- C18
\* C18: in immediate mode a 2xx whose results[0].cost_events is empty is
\* signalled to the caller as NoCostsTracked, and one whose cost_events is
\* not empty returns the structured outcome of the delivery.
C18_NoCostsSignalled ==
    (strategy = "immediate" /\ pc = "idle" /\ nextId > 1 /\ LastId \in acked) =>
        /\ cost_events = "empty" => trackResult = "NoCostsTracked"
        /\ cost_events = "some" => trackResult = "outcome"

\* --------------------------------------------------------------------- C19
\* the cached limits that match the record of a track call
Matching(record) ==
    MatchingLimits(ini_payload, record.service_key, record.client_customer_key)

\* C19: only threshold_type = limit blocks: a track call whose matching
\* cached limits are all of threshold_type 'alert' does not raise
\* UsageLimitExceeded and enqueues its record as usual.
C19_AlertDoesNotBlock ==
    [][ ( /\ strategy = "queue"
          /\ nextId' = nextId + 1
          /\ Matching(tracked') # {}
          /\ \A l \in Matching(tracked') : l.threshold_type = "alert" )
        => ( /\ trackResult' # "raised"
             /\ queue' = QEnqueued(nextId) ) ]_vars

\* --------------------------------------------------------------------- C20
\* a cached limit without service_id, vendor, service_key and
\* client_customer_key
Unscoped(e) == \A f \in DOMAIN NoScope : e[f] = None

\* C20: a cached limit with no scoping field matches every query made for
\* its api_key_id, whatever service_key and customer key the query carries:
\* get_triggered_limits (filtered by the api key) and
\* check_triggered_limits both return it for the record of any track call.
C20_UnscopedMatchesAll ==
    [][ (strategy = "queue" /\ nextId' = nextId + 1)
        => \A e \in Events(ini_payload) :
              (Unscoped(e) /\ e.api_key_id = ApiKey) =>
                  /\ e \in Matching(tracked')
                  /\ \A k \in FlatKeys :
                       Split(k) = tracked'.service_key =>
                           e \in check_triggered_limits(ini_payload, ApiKey, k,
                                                        tracked'.client_customer_key) ]_vars

\* --------------------------------------------------------------------- C21
\* C21: a limit scoped to one service id matches on the exact id only: while
\* a limit for service "v::A" is cached, a track call for "v::B" (same
\* vendor) is not blocked and a track call for "v::A" is blocked (records
\* without a customer key).
C21_ExactServiceId ==
    [][ ( /\ strategy = "queue"
          /\ nextId' = nextId + 1
          /\ ini_payload \in {"EnvA", "EnvKeyA"}
          /\ tracked'.client_customer_key = None )
        => (trackResult' = "raised" <=> tracked'.service_key.service_id = "A") ]_vars

\* --------------------------------------------------------------------- C22
\* the stored envelope cannot be verified: no token or public key, or a
\* signature that fails
Unverifiable(payload) == payload \in {None, "{}", "EnvForged"}

\* C22 as claimed: whenever the stored envelope fails verification or lacks
\* the token or public key, every query (get_triggered_limits,
\* check_triggered_limits) returns the empty list.
C22_UnverifiableIsEmpty ==
    [][ ( /\ lastOp' \in {"config_query", "limits_check"}
          /\ Unverifiable(Parsed(file).limits) )
        => result'.limits = {} ]_vars

\* C22: an envelope that fails verification behaves as an empty cache: both
\* queries return the empty list for every argument, raise nothing and leave
\* the file alone.  Without a token or public key check_triggered_limits
\* returns the empty list, and get_triggered_limits first refetches the
\* limits from the API: it returns the empty list when the refetch fails or
\* stores nothing verifiable.
C22_ForgedIsEmpty ==
    [][ /\ ( /\ lastOp' \in {"config_query", "limits_check"}
             /\ Parsed(file).limits = "EnvForged" )
           => (result'.limits = {} /\ file'.limits = "EnvForged")
        /\ (lastOp' = "limits_check" /\ Unverifiable(Parsed(file).limits))
           => result'.limits = {}
        /\ (lastOp' = "config_query" /\ Unverifiable(file'.limits))
           => result'.limits = {} ]_vars

\* a query has answered on a forged envelope
C22_Witness ==
    /\ strategy = "ini"
    /\ lastOp = "config_query"
    /\ file.limits = "EnvForged"
    /\ result.limits = {}

\* --------------------------------------------------------------------- C23
\* C23: limits cache round trip and replacement: once the writes of
\* [triggered_limits] made so far have completed, read_triggered_limits
\* returns exactly the envelope of the last write ({} for an empty one), and
\* nothing of an earlier envelope is left in it.
C23_ReadReturnsLastWrite ==
    /\ [](strategy = "ini" /\ raw.pc # "write"
            => ReadTriggeredLimits(Parsed(file)) = WrittenPayload(committed.limits))
    /\ [][ (lastOp' = "read_limits" /\ raw.pc # "write")
           => result'.value = WrittenPayload(committed.limits) ]_vars

\* a read has returned the envelope written over an earlier one
C23_Witness ==
    /\ strategy = "ini"
    /\ lastOp = "read_limits"
    /\ result.value = "EnvForged"
    /\ committed.limits = "EnvForged"
    /\ raw.cp.limits = "EnvA"

\* --------------------------------------------------------------------- C24
\* C24: INI round trip: after set_option(s, k, v) every get_option(s, k),
\* from any IniManager on the path and after a restart, returns v until the
\* next set_option of (s, k).
C24_GetReturnsSet ==
    /\ []((strategy = "ini" /\ committed.tracker # None)
            => Parsed(file).tracker = committed.tracker)
    /\ [][ (lastOp' = "get_option" /\ committed.tracker # None)
           => result'.value = committed.tracker ]_vars

\* --------------------------------------------------------------------- C25
\* C25: writers win at section granularity: a write of [triggered_limits]
\* never removes or reverts a value another writer has committed to
\* [tracker]; the option is still there, with its value, afterwards.
C25_OtherSectionKept ==
    [][ lastOp' \in {"write_limits", "raw_write", "config_query"}
        => file'.tracker = Parsed(file).tracker ]_vars

\* --------------------------------------------------------------------- C26
\* C26: a reader always observes a fully written prior version of the file:
\* no writer of the package leaves it empty, truncated or half written
\* where a concurrent reader can see it.
C26_NeverTorn == strategy = "ini" => ~file.torn

\* --------------------------------------------------------------------- C27
\* position of the first event of the stream with non-empty usage, 0 if none
FirstUsage ==
    IF \E k \in 1..Len(stream) : HasUsage(stream[k])
    THEN CHOOSE k \in 1..Len(stream) :
            HasUsage(stream[k]) /\ \A j \in 1..(k - 1) : ~HasUsage(stream[j])
    ELSE 0

\* C27 as claimed: for every input stream the wrapper yields exactly the
\* input events and calls track at most once.
C27_YieldsEveryEvent ==
    (strategy = "stream" /\ pc \in {"done", "raised"}) =>
        (yielded = stream /\ tracks <= 1)

\* C27: the wrapper yields the input events unchanged and in order, all of
\* them unless the track call raises; it calls track at most once per
\* stream, on the first event with non-empty usage, and later events cause
\* no further call.  A track call that raises ends the generator before that
\* event is yielded.
C27_PassThroughTrackOnce ==
    strategy = "stream" =>
        /\ Len(yielded) <= Len(stream)
        /\ \A k \in 1..Len(yielded) : yielded[k] = stream[k]
        /\ tracks <= 1
        /\ tracks = 1 <=> (FirstUsage # 0 /\ (Len(yielded) >= FirstUsage \/ pc = "raised"))
        /\ pc = "done" => yielded = stream
        /\ pc = "raised" => Len(yielded) = FirstUsage - 1

\* a stream with two usage events was passed through with one track call
C27_Witness ==
    /\ strategy = "stream"
    /\ pc = "done"
    /\ stream = << "plain", "usage", "usage" >>
    /\ yielded = stream
    /\ tracks = 1

C30_OneGlobalInstance ==
    strategy = "global" =>
        /\ created <= 1
        /\ \A t \in Threads : caller[t].got \subseteq {1}

\* --------------------------------------------------------------------- C31
\* C31: row state machine of the persistent queue: every row is queued,
\* processing or failed (or not in the table); a row changes only by
\* create -> queued, queued -> processing (pickup), processing -> deleted
\* (after a 2xx), processing -> queued with retry_count + 1 (failure below
\* the bound) or processing -> failed (failure at the bound); a failed row
\* never changes again and is never part of a POST.
RowStep(i) ==
    \/ rows'[i] = rows[i]
    \/ /\ rows[i].status = "absent"
       /\ i = nextId
       /\ rows'[i].status = "queued" /\ rows'[i].retry_count = 0
    \/ /\ rows[i].status = "queued"
       /\ rows[i].scheduled_at <= now
       /\ rows'[i] = [rows[i] EXCEPT !.status = "processing"]
    \/ /\ rows[i].status = "processing"
       /\ i \in acked
       /\ rows'[i].status = "absent"
    \/ /\ rows[i].status = "processing"
       /\ rows'[i].status = "queued"
       /\ rows'[i].retry_count = rows[i].retry_count + 1
       /\ rows'[i].retry_count < max_retries
    \/ /\ rows[i].status = "processing"
       /\ rows'[i].status = "failed"
       /\ rows'[i].retry_count = rows[i].retry_count + 1
       /\ rows'[i].retry_count >= max_retries

C31_RowStateMachine ==
    /\ [](strategy = "persistent" =>
            \A i \in Ids : rows[i].status \in {"absent", "queued", "processing", "failed"})
    /\ [][ strategy = "persistent" =>
            \A i \in Ids :
                /\ RowStep(i)
                /\ rows[i].status = "failed" =>
                       (rows'[i] = rows[i] /\ postCount'[i] = postCount[i]) ]_vars

\* a row has failed for good and stays failed, although due, while the
\* worker has picked up a younger row
C31_Witness ==
    /\ strategy = "persistent"
    /\ rows[1].status = "failed"
    /\ rows[1].scheduled_at <= now
    /\ rows[2].status = "processing"
    /\ batch = << 2 >>

\* --------------------------------------------------------------------- C32
\* C32: pickup is atomic: no row is claimed by two pickups at the same time,
\* also when two processes share one queue database and interleave with
\* enqueue.
ClaimedBy(p) ==
    IF workers[p].pc \in {"post", "ack", "resched"} THEN RowIds(workers[p].rows) ELSE {}

C32_NoDoubleClaim ==
    strategy = "shared" => ClaimedBy("p1") \cap ClaimedBy("p2") = {}

\* --------------------------------------------------------------------- C33
\* C33: no persisted record is lost: an enqueue that returns has inserted
\* the record's row, and a row leaves the table only after a POST carrying
\* the record was answered 2xx; so every record whose enqueue has returned
\* has its row (queued, processing or failed) or was delivered.
C33_NoPersistedRecordLost ==
    /\ []( (strategy \in {"persistent", "legacy"} /\ crashes = 0 /\ ~closed) =>
             \A i \in 1..(nextId - 1) :
                 \/ rows[i].status \in {"queued", "processing", "failed"}
                 \/ i \in acked )
    /\ [][ (strategy \in {"persistent", "legacy"}) =>
             \A i \in Ids :
                 /\ (nextId' = nextId + 1 /\ i = nextId /\ trackResult' = "queued")
                        => rows'[i].status = "queued"
                 /\ ((rows[i].status # "absent" /\ rows'[i].status = "absent")
                        => i \in acked) ]_vars

\* one record was delivered and its row deleted, the other has used up its
\* retries and is kept as 'failed'
C33_Witness ==
    /\ strategy = "persistent"
    /\ \E i, j \in Ids :
         /\ rows[i].status = "absent" /\ i \in acked
         /\ rows[j].status = "failed"

\* --------------------------------------------------------------------- C34
\* every POST so far was answered 2xx
AllPostsSucceeded ==
    \A i \in Ids : rows[i].retry_count = 0 /\ postCount[i] = (IF i \in acked THEN 1 ELSE 0)

\* the buffering worker begins a flush
FlushStart == pc # "post" /\ pc' = "post"

\* the records not delivered yet, lowest ids first, up to the cap
NextInOrder ==
    LET rest == SortAsc(Ids \ acked)
    IN SubSeq(rest, 1, Min(batch_limit, Len(rest)))

\* no body above the cap; while every POST succeeds the bodies follow the ids
CapAndOrder ==
    strategy = "legacy" =>
        /\ Len(batch) <= batch_limit
        /\ (AllPostsSucceeded /\ pc = "post") =>
                    /\ \A k1, k2 \in 1..Len(batch) : k1 < k2 => batch[k1] < batch[k2]
                    /\ \A i \in SeqToSet(batch) : \A j \in 1..(i - 1) :
                           j \in SeqToSet(batch) \/ j \in acked

\* while every POST succeeds, a POST carries no record delivered before
PartitionStep ==
    (strategy = "legacy" /\ AllPostsSucceeded) =>
        \A i \in Ids : postCount'[i] > postCount[i] => i \notin acked

\* a flush begins at the cap or after batch_interval, and once every record
\* is enqueued it ships the next records in order; `final` says whether the
\* flush that follows the stop flag is exempt
FlushRule(final) ==
    (strategy = "legacy" /\ FlushStart /\ ~(final /\ site' = "final")) =>
        /\ Len(batch') >= batch_limit \/ Elapsed(first_ts')
        /\ (AllPostsSucceeded /\ nextId = MaxRecords + 1) => batch' = NextInOrder

\* C34 as claimed: no POST body carries more rows than the cap; a batch is
\* shipped only when it has reached the cap or batch_interval has passed
\* since its first row was picked; with every POST succeeding the batches
\* partition the records in id order, so records enqueued before the first
\* flush, more than the cap, are shipped as a full batch followed by the
\* rest.
C34_ShippedAtCapOrInterval ==
    []CapAndOrder /\ [][FlushRule(FALSE) /\ PartitionStep]_vars

\* C34 as amended: the same, except that the final flush, made once the
\* stop flag is set, ships the buffer as it is.
C34_ShippedAtCapIntervalOrStop ==
    []CapAndOrder /\ [][FlushRule(TRUE) /\ PartitionStep]_vars

\* three records with a cap of two: the full batch was delivered and the
\* rest is being shipped from the loop
C34_Witness ==
    /\ strategy = "legacy"
    /\ pc = "post"
    /\ site = "loop"
    /\ batch = << 3 >>
    /\ acked = {1, 2}
    /\ postCount = << 1, 1, 0 >>
    /\ Len(batch) < batch_limit /\ Elapsed(first_ts)

\* --------------------------------------------------------------------- C35
\* the delay the claim states for a row rescheduled with retry_count rc
ClaimedDelay(rc) == IF 2 ^ rc <= 300 THEN 2 ^ rc ELSE 300

\* C35: a picked row whose batch failed and that stays below the retry bound
\* gets retry_count + 1 and scheduled_at = now + min(2^retry_count, 300)
\* with the new retry_count; it is not picked up before that time, and the
\* delay never exceeds 300 seconds.
C35_Backoff ==
    /\ [](strategy \in {"backoff", "persistent"} =>
            \A i \in Ids : rows[i].status = "queued" => rows[i].scheduled_at - now <= 300)
    /\ [][ (strategy \in {"backoff", "persistent"}) =>
            \A i \in Ids :
                /\ (rows[i].status = "processing" /\ rows'[i].status = "queued") =>
                       /\ rows'[i].retry_count = rows[i].retry_count + 1
                       /\ rows'[i].scheduled_at = now + ClaimedDelay(rows'[i].retry_count)
                /\ ((rows[i].status = "queued" /\ rows'[i].status = "processing") =>
                       now >= rows[i].scheduled_at) ]_vars

\* a row rescheduled for the ninth time at instant 0 waited the capped 300
\* seconds (2^9 = 512) and was picked up at instant 300
C35_Witness ==
    /\ strategy = "backoff"
    /\ rows[1].status = "processing"
    /\ rows[1].retry_count = 9
    /\ rows[1].scheduled_at = 300
    /\ now = 300

\* --------------------------------------------------------------------- C36
\* C36: the counters are exact under concurrency: once the concurrent
\* enqueue calls have returned, total_failed is the number of records
\* dropped on the full queue, and total_sent is the number of records
\* delivered, whatever the interleaving of the callers and the worker.
C36_CountersExact ==
    (strategy = "race" /\ \A t \in Threads : callers[t].pc = "idle") =>
        /\ total_failed = Dropped
        /\ total_sent = Cardinality(acked)

\* --------------------------------------------------------------------- C37
\* C37: the worker survives a failed batch: after a batch whose POST failed
\* on every attempt the worker thread of the in-memory strategy has not
\* ended (unless stop() was called), so that records enqueued afterwards
\* are still collected and shipped.
C37_WorkerSurvivesFailedBatch ==
    (strategy = "mem" /\ ~stopFlag) => ~WorkerEnded

\* --------------------------------------------------------------------- C38
\* the usage records still waiting in the queue or held by the worker
Pending == Len(UsageRecords(queue)) + Len(UsageRecords(batch))

\* C38: counter conservation: in every reachable state of the queue-based
\* ResilientDelivery each record handed to deliver() is accounted for
\* exactly once: total_sent + total_failed + queued + in-flight equals the
\* number of deliver() calls.
C38_CounterConservation ==
    strategy = "resilient" => total_sent + total_failed + Pending = nextId - 1

\* --------------------------------------------------------------------- C39
\* C39: a failure of the triggered-limits update that follows a successful
\* POST never fails the delivery: the step of the worker that leaves the
\* position reached by a failed refresh acknowledges the whole batch and
\* counts it as sent, counts nothing as failed, POSTs nothing again, leaves
\* nothing of the batch queued, and takes the worker back to its loop.
C39_RefreshFailureKeepsDelivery ==
    [][ (strategy = "queue" /\ pc = "unrefreshed" /\ pc' # pc) =>
            (/\ acked' = acked \cup SeqToSet(batch)
             /\ total_sent' = total_sent + Len(batch)
             /\ total_failed' = total_failed
             /\ failedIds' = failedIds
             /\ postCount' = postCount
             /\ \A k \in 1..Len(queue') : \A b \in 1..Len(batch) : queue'[k] # batch[b]
             /\ batch' = << >>
             /\ pc' = site) ]_vars

\* the INI file has never been written, so every refresh so far failed; the
\* batch has still been acknowledged and counted, and the worker is back in
\* its loop
C39_Witness ==
    /\ strategy = "queue"
    /\ ini_payload = None
    /\ lastResp # None
    /\ acked = {1, 2}
    /\ total_sent = 2
    /\ total_failed = 0
    /\ pc = "loop"

\* --------------------------------------------------------------------- C40
\* C40: ResilientDelivery never POSTs an empty batch: whenever the worker is
\* about to POST, after any sequence of start, deliver and stop calls, the
\* body holds at least one usage record, and the batches counted in
\* total_sent or total_failed never outnumber the records shipped or given up
\* (the stop sentinel is not counted).
C40_NeverEmptyPost ==
    strategy = "resilient" =>
        /\ (pc = "send" => PostBody # << >>)
        /\ total_sent <= Cardinality(acked)

====
